---- MODULE Spec2Model ----
(***************************************************************************)
(* A model of the suppression engine of libabigail                         *)
(* (src/src/abg-suppression.cc, src/src/abg-suppression-priv.h):           *)
(*  - the rule parser: read_suppressions and the four read_*_suppression   *)
(*    functions, run over an already parsed INI configuration;             *)
(*  - the diff-time matcher: suppresses_diff / suppresses_type /           *)
(*    suppresses_function / suppresses_variable / suppresses_file;         *)
(*  - the artifact-time filters: function_is_suppressed and its kin;       *)
(*  - the strongly-connected component finder of src/src/abg-scc.h, driven *)
(*    by a depth-first search.                                             *)
(*                                                                         *)
(* Strings are TLA+ strings.  A compiled regular expression is the record  *)
(* of its source; matching is decided by the language table regex_match.   *)
(* A C++ call that returns normally is the record Ret(b); a failed         *)
(* ABG_ASSERT is Aborted; undefined behaviour (a null dereference) is      *)
(* Undefined, which the evaluation action resolves nondeterministically.   *)
(***************************************************************************)
EXTENDS Integers, Sequences, FiniteSets, TLC

VARIABLES
  config,         \* read_suppressions: the sections of the ini::config
  suppressions0,  \* read_suppressions: the output vector as it was on entry
  suppressions,   \* read_suppressions: the output vector
  success,        \* read_suppressions: local 'success'
  idx,            \* read_suppressions: position of the iterator 'i'
  pc,             \* control point of the operation under way
  result,         \* what the call returned, once it has ended
  suppr,          \* matcher: the rule, or the offset of eval (*this)
  diff,           \* matcher: the diff node (suppresses_diff)
  artifact,       \* matcher: the type, function, variable or file path
  ctxt,           \* matcher: the diff context (diff->context())
  change,         \* matcher: the change kind 'k' of suppresses_function, ...
  type_is_private, \* filter: the out parameter of type_is_suppressed
  open_,          \* SCC finder: index to node
  is_open_,       \* SCC finder: node to index
  root_index_,    \* SCC finder: indices of the candidate roots
  scc,            \* SCC finder: what the last Close returned
  stack,          \* depth-first search: the nodes under examination
  visited,        \* depth-first search: the nodes Open gave a handle for
  edges,          \* depth-first search: the edges followed so far
  sccs            \* depth-first search: the components recorded so far

parse_vars == <<config, suppressions0, suppressions, success, idx>>
match_vars == <<suppr, diff, artifact, ctxt, change, type_is_private>>
scc_vars ==
  <<open_, is_open_, root_index_, scc, stack, visited, edges, sccs>>

vars == <<parse_vars, match_vars, scc_vars, pc, result>>

\* a default-constructed SCC finder, and no search under way
SccIdle ==
  /\ open_ = <<>>
  /\ is_open_ = <<>>
  /\ root_index_ = <<>>
  /\ scc = <<>>
  /\ stack = <<>>
  /\ visited = {}
  /\ edges = <<>>
  /\ sccs = <<>>

-----------------------------------------------------------------------------
(* Bounds *)

MaxProps == 2
MaxSections == 3

-----------------------------------------------------------------------------
(* Generic helpers *)

Range(s) == {s[k] : k \in 1..Len(s)}

SeqsUpTo(S, n) == UNION {[1..k -> S] : k \in 0..n}

\* outcome of a C++ call
Ret(b) == [status |-> "returned", value |-> b]
Aborted == [status |-> "aborted", value |-> FALSE]
Undefined == [status |-> "undefined", value |-> FALSE]

\* no call has ended yet
Idle == [status |-> "none", value |-> FALSE]

\* null pointers, and the values of the variables an operation does not use
NoSuppr == [kind |-> "none"]
NoNode == [kind |-> "none"]
NoType == [kind |-> "none"]
NoCtxt == [null |-> TRUE, first_path |-> "", second_path |-> "",
           first_soname |-> "", second_soname |-> ""]

-----------------------------------------------------------------------------
(* Regular expressions (abg-regex): compile and match *)

NoRegex == [null |-> TRUE, re |-> ""]

\* sources that regcomp refuses
BadRegexSources == {"(", "["}

regex_compile(str) ==
  IF str \in BadRegexSources THEN NoRegex ELSE [null |-> FALSE, re |-> str]

\* the strings each regular expression of the model matches
regex_language(re) ==
  CASE re = "^S"        -> {"S", "S2"}
    [] re = "^T"        -> {"T"}
    [] re = "^f"        -> {"f", "f2"}
    [] re = "^g"        -> {"g"}
    [] re = "foo"       -> {"/usr/lib/libfoo.so", "libfoo.so", "libfoo.so.1",
                            "/usr/lib/libfoo.so.3", "libfoo.so.3",
                            "include/foo.h", "foo.h"}
    [] re = "bar"       -> {"/usr/lib/libbar.so", "libbar.so", "libbar.so.1",
                            "/usr/lib/libbar.so.1",
                            "include/bar.h", "bar.h"}
    [] re = "^libfoo"   -> {"libfoo.so", "libfoo.so.1", "libfoo.so.3"}
    [] re = "^int$"     -> {"int"}
    [] re = "^V1"       -> {"V1"}
    [] OTHER            -> {}

regex_match(r, str) ==
  IF r.re = ".*" THEN TRUE ELSE str \in regex_language(r.re)

-----------------------------------------------------------------------------
(* The INI tree (abg-ini): property values, properties, sections *)

StringValue(s)  == [kind |-> "string", content |-> <<s>>, items |-> <<>>]
ListValue(l)    == [kind |-> "list", content |-> l, items |-> <<>>]
TupleValue(its) == [kind |-> "tuple", content |-> <<>>, items |-> its]

SimpleProperty(n, s)  == [name |-> n, kind |-> "simple", value |-> StringValue(s)]
ListProperty(n, l)    == [name |-> n, kind |-> "list", value |-> ListValue(l)]
TupleProperty(n, its) == [name |-> n, kind |-> "tuple", value |-> TupleValue(its)]

NoProp == [name |-> "", kind |-> "none", value |-> StringValue("")]

is_simple_property(p) == p.kind = "simple"
is_list_property(p)   == p.kind = "list"
is_tuple_property(p)  == p.kind = "tuple"
is_list_property_value(v)  == v.kind = "list"
is_tuple_property_value(v) == v.kind = "tuple"
as_string(p) == p.value.content[1]

Section(n, ps) == [name |-> n, properties |-> ps]

\* ini::config::section::find_property: the first property of that name
RECURSIVE first_named(_, _)
first_named(ps, n) ==
  IF ps = <<>> THEN NoProp
  ELSE IF Head(ps).name = n THEN Head(ps)
  ELSE first_named(Tail(ps), n)

find_property(section, n) == first_named(section.properties, n)

has_property(section, n) == find_property(section, n).kind # "none"

\* ini::read_function_call_expr(const string&): "identifier(arg, ...)"
NoCall == [null |-> TRUE, name |-> "", arguments |-> <<>>]
FnCall(n, as) == [null |-> FALSE, name |-> n, arguments |-> as]

read_function_call_expr(str) ==
  CASE str = "offset_of(a)"     -> FnCall("offset_of", <<"a">>)
    [] str = "offset_of(b)"     -> FnCall("offset_of", <<"b">>)
    [] str = "offset_of(zz)"    -> FnCall("offset_of", <<"zz">>)
    [] str = "offset_after(a)"  -> FnCall("offset_after", <<"a">>)
    [] str = "offset_after(b)"  -> FnCall("offset_after", <<"b">>)
    [] str = "offset_after(zz)" -> FnCall("offset_after", <<"zz">>)
    [] str = "offset_of(a,b)"   -> FnCall("offset_of", <<"a", "b">>)
    [] str = "size_of(a)"       -> FnCall("size_of", <<"a">>)
    [] str = "offset_of(s)"     -> FnCall("offset_of", <<"s">>)
    [] str = "offset_after(s)"  -> FnCall("offset_after", <<"s">>)
    [] str = "offset_of()"      -> FnCall("offset_of", <<>>)
    [] str = "offset_after(a,b)" -> FnCall("offset_after", <<"a", "b">>)
    [] OTHER                    -> NoCall

\* isdigit(str[0]) and atoi(str) on the scalars of the model
DigitStrings == {"0", "8", "16", "32", "64", "96"}
isdigit0(str) == str \in DigitStrings
atoi(str) ==
  CASE str = "0" -> 0 [] str = "8" -> 8 [] str = "16" -> 16
    [] str = "32" -> 32 [] str = "64" -> 64 [] str = "96" -> 96
    [] OTHER -> 0

-----------------------------------------------------------------------------
(* String and property parsing *)

string_to_boolean(str) ==
  IF str = "yes" \/ str = "true" THEN [ok |-> TRUE, val |-> TRUE]
  ELSE IF str = "no" \/ str = "false" THEN [ok |-> TRUE, val |-> FALSE]
  ELSE [ok |-> FALSE, val |-> FALSE]

\* read(const ini::property_sptr&, std::string&)
read_string(prop) ==
  IF ~is_simple_property(prop) THEN [ok |-> FALSE, val |-> ""]
  ELSE [ok |-> TRUE, val |-> as_string(prop)]

\* what read(prop, regex) does with the outcome of the compilation
compiled_or_fail(regex) ==
  IF regex.null THEN [ok |-> FALSE, val |-> NoRegex]
  ELSE [ok |-> TRUE, val |-> regex]

\* read(const ini::property_sptr&, regex_t_sptr&)
read_regex(prop) ==
  IF ~read_string(prop).ok THEN [ok |-> FALSE, val |-> NoRegex]
  ELSE compiled_or_fail(regex_compile(read_string(prop).val))

\* read(const ini::property_sptr&, bool&)
read_bool(prop) ==
  IF ~read_string(prop).ok THEN [ok |-> FALSE, val |-> FALSE]
  ELSE string_to_boolean(read_string(prop).val)

check_sufficient_props(names, section) ==
  \E n \in names : has_property(section, n)

\* 'if (prop) { T v; if (read(prop, v)) set(v); }': the value the field takes
string_of(prop, dflt) ==
  IF prop.kind # "none" /\ read_string(prop).ok
  THEN read_string(prop).val ELSE dflt

regex_of(prop) ==
  IF prop.kind # "none" /\ read_regex(prop).ok
  THEN read_regex(prop).val ELSE NoRegex

bool_of(prop, dflt) ==
  IF prop.kind # "none" /\ read_bool(prop).ok
  THEN read_bool(prop).val ELSE dflt

\* 'if (prop = find_property(n)) ...'
string_field(section, n, dflt) == string_of(find_property(section, n), dflt)

regex_field(section, n) == regex_of(find_property(section, n))

bool_field(section, n, dflt) == bool_of(find_property(section, n), dflt)

\* 'drop_artifact', or 'drop' when there is no 'drop_artifact'
drop_field(section) ==
  bool_of(IF has_property(section, "drop_artifact")
          THEN find_property(section, "drop_artifact")
          ELSE find_property(section, "drop"),
          FALSE)

-----------------------------------------------------------------------------
(* Offsets and offset ranges (type_suppression::offset, offset_range) *)

\* std::numeric_limits<uint64_t>::max(), the "end" sentinel.  It stands for
\* 2^64 - 1; only its being larger than every real offset is used.
uint64_max == 2147483647

\* conversion of the 'int' argument to the uint64_t the offset stores
to_uint64(value) == IF value < 0 THEN uint64_max + (value + 1) ELSE value

create_integer_offset(value) ==
  [null |-> FALSE, tag |-> "integer_offset", value |-> to_uint64(value),
   expr |-> NoCall]

\* create_fn_call_expr_offset(ini::function_call_expr_sptr): wraps whatever
\* pointer it is given, so the result is never a null offset
create_fn_call_expr_offset(expr) ==
  [null |-> FALSE, tag |-> "fn_call_expr_offset", value |-> 0, expr |-> expr]

NoOffset ==
  [null |-> TRUE, tag |-> "none", value |-> 0, expr |-> NoCall]

offset_range(begin, end) == [begin |-> begin, end |-> end]

boundary_value_is_end(value) == value = uint64_max

\* 'else if (offset_sptr expr = create_fn_call_expr_offset(...))'
non_null_offset(expr) ==
  IF ~expr.null THEN [ok |-> TRUE, val |-> expr]
  ELSE [ok |-> FALSE, val |-> NoOffset]

\* the if / else-if chain that turns one scalar into one end of a range
read_offset(str) ==
  IF str = "end" THEN [ok |-> TRUE, val |-> create_integer_offset(-1)]
  ELSE IF isdigit0(str)
    THEN [ok |-> TRUE, val |-> create_integer_offset(atoi(str))]
  ELSE non_null_offset(create_fn_call_expr_offset(read_function_call_expr(str)))

\* 'if (begin && end) push_back(offset_range(begin, end)); else return null'
range_or_fail(begin, end) ==
  IF ~begin.ok \/ ~end.ok THEN [ok |-> FALSE, val |-> <<>>]
  ELSE [ok |-> TRUE, val |-> <<offset_range(begin.val, end.val)>>]

\* one list of two scalars -> one range
read_offset_pair(content) ==
  range_or_fail(read_offset(content[1]), read_offset(content[2]))

inserted_at_of(prop) ==
  IF ~is_simple_property(prop) THEN [ok |-> TRUE, val |-> <<>>]
  ELSE range_or_fail(read_offset(as_string(prop)),
                     [ok |-> TRUE, val |-> create_integer_offset(-1)])

\* "has_data_member_inserted_at"
read_inserted_at(section) ==
  inserted_at_of(find_property(section, "has_data_member_inserted_at"))

inserted_between_of(prop) ==
  IF ~is_tuple_property(prop) THEN [ok |-> TRUE, val |-> <<>>]
  ELSE IF /\ Len(prop.value.items) = 1
          /\ is_list_property_value(prop.value.items[1])
          /\ Len(prop.value.items[1].content) = 2
    THEN read_offset_pair(prop.value.items[1].content)
  ELSE [ok |-> FALSE, val |-> <<>>]

\* "has_data_member_inserted_between"
read_inserted_between(section) ==
  inserted_between_of(find_property(section,
                                    "has_data_member_inserted_between"))

\* one more range in front of the ranges read after it
more_ranges(range, rest) ==
  IF ~range.ok \/ ~rest.ok THEN [ok |-> FALSE, val |-> <<>>]
  ELSE [ok |-> TRUE, val |-> range.val \o rest.val]

\* "has_data_members_inserted_between": the loop over the tuple's items
RECURSIVE read_ranges_loop(_)
read_ranges_loop(items) ==
  IF items = <<>> THEN [ok |-> TRUE, val |-> <<>>]
  ELSE IF \/ ~is_tuple_property_value(Head(items))
          \/ Len(Head(items).items) # 1
          \/ ~is_list_property_value(Head(items).items[1])
    THEN [ok |-> FALSE, val |-> <<>>]
  ELSE IF Len(Head(items).items[1].content) # 2
    THEN [ok |-> FALSE, val |-> <<>>]
  ELSE more_ranges(read_offset_pair(Head(items).items[1].content),
                   read_ranges_loop(Tail(items)))

inserted_between_many_of(prop) ==
  IF ~is_tuple_property(prop) THEN [ok |-> TRUE, val |-> <<>>]
  ELSE read_ranges_loop(prop.value.items)

read_inserted_between_many(section) ==
  inserted_between_many_of(
    find_property(section, "has_data_members_inserted_between"))

-----------------------------------------------------------------------------
(* Type suppressions: parsing *)

read_type_kind_string(input) ==
  IF input \in {"class", "struct", "union", "enum", "array", "typedef",
                "builtin"}
  THEN input ELSE "unknown"

read_suppression_reach_kind(input) ==
  IF input \in {"direct", "pointer", "reference", "reference-or-pointer"}
  THEN input ELSE "direct"

\* a default-constructed type_suppression
type_suppression_default ==
  [kind |-> "type",
   is_artificial |-> FALSE, drops_artifact |-> FALSE, label |-> "",
   file_name_regex |-> NoRegex, file_name_not_regex |-> NoRegex,
   soname_regex |-> NoRegex, soname_not_regex |-> NoRegex,
   type_name_regex |-> NoRegex, type_name |-> "",
   type_name_not_regex |-> NoRegex,
   consider_type_kind |-> FALSE, type_kind |-> "unknown",
   consider_reach_kind |-> FALSE, reach_kind |-> "direct",
   insertion_ranges |-> <<>>,
   source_locations_to_keep |-> {},
   source_location_to_keep_regex |-> NoRegex,
   changed_enumerator_names |-> <<>>]

type_sufficient_props ==
  {"file_name_regexp", "file_name_not_regexp", "soname_regexp",
   "soname_not_regexp", "name", "name_regexp", "name_not_regexp",
   "type_kind", "source_location_not_in", "source_location_not_regexp"}

srcloc_not_in_of(prop) ==
  IF is_simple_property(prop) THEN {as_string(prop)}
  ELSE IF is_list_property(prop) THEN Range(prop.value.content)
  ELSE {}

\* the "source_location_not_in" set
read_srcloc_not_in(section) ==
  srcloc_not_in_of(find_property(section, "source_location_not_in"))

changed_enumerators_of(prop) ==
  IF is_list_property(prop) THEN prop.value.content
  ELSE IF is_simple_property(prop) THEN <<as_string(prop)>>
  ELSE <<>>

\* the "changed_enumerators" vector
read_changed_enumerators(section) ==
  changed_enumerators_of(find_property(section, "changed_enumerators"))

\* the 'drop' directive is kept only next to a name or location predicate
type_drop_ignored(r) ==
  /\ r.drops_artifact
  /\ r.type_name_regex.null
  /\ r.type_name = ""
  /\ r.source_location_to_keep_regex.null
  /\ r.source_locations_to_keep = {}

\* whether 'if (prop) if (read(prop, str))' is entered
string_is_read(prop) == prop.kind # "none" /\ read_string(prop).ok

\* the setters, from 'label' to 'drop_artifact'
type_populated(section, insert_ranges) ==
  [type_suppression_default EXCEPT
     !.label = string_field(section, "label", ""),
     !.type_name_regex = regex_field(section, "name_regexp"),
     !.type_name = string_field(section, "name", ""),
     !.consider_type_kind = string_is_read(find_property(section, "type_kind")),
     !.type_kind =
        read_type_kind_string(string_field(section, "type_kind", "")),
     !.consider_reach_kind =
        string_is_read(find_property(section, "accessed_through")),
     !.reach_kind =
        read_suppression_reach_kind(
          string_field(section, "accessed_through", "")),
     !.insertion_ranges = insert_ranges,
     !.type_name_not_regex = regex_field(section, "name_not_regexp"),
     !.file_name_regex = regex_field(section, "file_name_regexp"),
     !.file_name_not_regex = regex_field(section, "file_name_not_regexp"),
     !.soname_regex = regex_field(section, "soname_regexp"),
     !.soname_not_regex = regex_field(section, "soname_not_regexp"),
     !.source_locations_to_keep = read_srcloc_not_in(section),
     !.source_location_to_keep_regex =
        regex_field(section, "source_location_not_regexp"),
     !.drops_artifact = drop_field(section)]

\* 'if (drops_artifact && no name, no location) set_drops_artifact(false)'
type_drop_checked(r) ==
  IF type_drop_ignored(r) THEN [r EXCEPT !.drops_artifact = FALSE] ELSE r

\* 'if (get_type_kind() == ENUM_TYPE_KIND && !names.empty()) set(names)'
type_enumerators_set(r, names) ==
  IF r.type_kind = "enum" /\ names # <<>>
  THEN [r EXCEPT !.changed_enumerator_names = names] ELSE r

\* the part of the reader that follows the three insertion-range properties
type_with_ranges(section, at, between, many) ==
  IF ~at.ok \/ ~between.ok \/ ~many.ok
    THEN [ret |-> Ret(FALSE), suppr |-> NoSuppr]
  ELSE [ret |-> Ret(TRUE),
        suppr |->
          type_enumerators_set(
            type_drop_checked(
              type_populated(section, at.val \o between.val \o many.val)),
            read_changed_enumerators(section))]

read_type_suppression(section) ==
  IF ~check_sufficient_props(type_sufficient_props, section)
    THEN [ret |-> Ret(FALSE), suppr |-> NoSuppr]
  ELSE type_with_ranges(section,
                        read_inserted_at(section),
                        read_inserted_between(section),
                        read_inserted_between_many(section))

-----------------------------------------------------------------------------
(* Function suppressions: parsing *)

\* change_kind is a bit set; its values are sets of bits here
FUNCTION_SUBTYPE_CHANGE_KIND == {"function-subtype-change"}
ADDED_FUNCTION_CHANGE_KIND == {"added-function"}
DELETED_FUNCTION_CHANGE_KIND == {"deleted-function"}
ALL_FUNCTION_CHANGE_KIND ==
  {"function-subtype-change", "added-function", "deleted-function"}
UNDEFINED_CHANGE_KIND == {}

function_parse_change_kind(s) ==
  IF s = "function-subtype-change" THEN FUNCTION_SUBTYPE_CHANGE_KIND
  ELSE IF s = "added-function" THEN ADDED_FUNCTION_CHANGE_KIND
  ELSE IF s = "deleted-function" THEN DELETED_FUNCTION_CHANGE_KIND
  ELSE IF s = "all" THEN ALL_FUNCTION_CHANGE_KIND
  ELSE UNDEFINED_CHANGE_KIND

\* the lexical split that read_parameter_spec_from_string makes of the
\* scalars of the model: the digits after the quote, whether a '/' opens the
\* type name, and the type name (or regex source) itself
parameter_lex(str) ==
  CASE str = "'0 int"     -> [index_str |-> "0", is_regex |-> FALSE, type_name |-> "int"]
    [] str = "'1 /^int$/" -> [index_str |-> "1", is_regex |-> TRUE, type_name |-> "^int$"]
    [] str = "'0 /(/"     -> [index_str |-> "0", is_regex |-> TRUE, type_name |-> "("]
    [] str = "int"        -> [index_str |-> "", is_regex |-> FALSE, type_name |-> "int"]
    [] OTHER              -> [index_str |-> "", is_regex |-> FALSE, type_name |-> ""]

NoParm == [null |-> TRUE, index |-> 0, type_name |-> "", type_name_regex |-> NoRegex]

parameter_spec_of(lex) ==
  IF lex.index_str # "" \/ lex.type_name # ""
  THEN [null |-> FALSE,
        index |-> atoi(lex.index_str),
        type_name |-> IF lex.is_regex THEN "" ELSE lex.type_name,
        type_name_regex |->
          IF lex.is_regex THEN regex_compile(lex.type_name) ELSE NoRegex]
  ELSE NoParm

read_parameter_spec_from_string(str) == parameter_spec_of(parameter_lex(str))

\* 'if (parm) parms.push_back(parm)', in front of the specs read after it
more_parameters(parm, rest) ==
  [ret |-> Ret(TRUE),
   val |-> IF parm.null THEN rest.val ELSE <<parm>> \o rest.val]

\* one "parameter" property, in front of the outcome of the rest of the loop
parameters_step(prop, rest) ==
  IF prop.name # "parameter" THEN rest
  ELSE IF ~is_simple_property(prop)    \* ABG_ASSERT(prop)
    THEN [ret |-> Aborted, val |-> <<>>]
  ELSE IF rest.ret.status # "returned" THEN rest
  ELSE more_parameters(read_parameter_spec_from_string(as_string(prop)), rest)

\* the loop over all the properties of the section named "parameter"
RECURSIVE read_parameters(_)
read_parameters(props) ==
  IF props = <<>> THEN [ret |-> Ret(TRUE), val |-> <<>>]
  ELSE parameters_step(Head(props), read_parameters(Tail(props)))

function_suppression_default ==
  [kind |-> "function",
   is_artificial |-> FALSE, drops_artifact |-> FALSE, label |-> "",
   file_name_regex |-> NoRegex, file_name_not_regex |-> NoRegex,
   soname_regex |-> NoRegex, soname_not_regex |-> NoRegex,
   change_kind |-> ALL_FUNCTION_CHANGE_KIND,
   name |-> "", name_regex |-> NoRegex, name_not_regex |-> NoRegex,
   return_type_name |-> "", return_type_regex |-> NoRegex,
   parm_specs |-> <<>>,
   symbol_name |-> "", symbol_name_regex |-> NoRegex,
   symbol_name_not_regex |-> NoRegex,
   symbol_version |-> "", symbol_version_regex |-> NoRegex,
   allow_other_aliases |-> TRUE]

function_sufficient_props ==
  {"label", "file_name_regexp", "file_name_not_regexp", "soname_regexp",
   "soname_not_regexp", "name", "name_regexp", "name_not_regexp",
   "parameter", "return_type_name", "return_type_regexp", "symbol_name",
   "symbol_name_regexp", "symbol_name_not_regexp", "symbol_version",
   "symbol_version_regexp"}

\* the 'drop' directive is kept only next to a name or symbol-name predicate
decl_drop_ignored(r) ==
  /\ r.drops_artifact
  /\ r.name = ""
  /\ r.name_regex.null
  /\ r.name_not_regex.null
  /\ r.symbol_name = ""
  /\ r.symbol_name_regex.null
  /\ r.symbol_name_not_regex.null

\* 'if (drops_artifact && no name, no symbol name) set_drops_artifact(false)'
decl_drop_checked(r) ==
  IF decl_drop_ignored(r) THEN [r EXCEPT !.drops_artifact = FALSE] ELSE r

\* 'change_kind': parsed only when the property reads as a non-empty string
function_change_kind_of(str) ==
  IF str # "" THEN function_parse_change_kind(str)
  ELSE function_suppression_default.change_kind

function_populated(section, parms) ==
  [function_suppression_default EXCEPT
     !.label = string_field(section, "label", ""),
     !.name = string_field(section, "name", ""),
     !.name_regex = regex_field(section, "name_regexp"),
     !.return_type_name = string_field(section, "return_type_name", ""),
     !.return_type_regex = regex_field(section, "return_type_regexp"),
     !.parm_specs = parms,
     !.symbol_name = string_field(section, "symbol_name", ""),
     !.symbol_name_regex = regex_field(section, "symbol_name_regexp"),
     !.symbol_version = string_field(section, "symbol_version", ""),
     !.symbol_version_regex = regex_field(section, "symbol_version_regexp"),
     !.change_kind =
        function_change_kind_of(string_field(section, "change_kind", "")),
     !.allow_other_aliases =
        bool_field(section, "allow_other_aliases",
                   function_suppression_default.allow_other_aliases),
     !.name_not_regex = regex_field(section, "name_not_regexp"),
     !.symbol_name_not_regex = regex_field(section, "symbol_name_not_regexp"),
     !.file_name_regex = regex_field(section, "file_name_regexp"),
     !.file_name_not_regex = regex_field(section, "file_name_not_regexp"),
     !.soname_regex = regex_field(section, "soname_regexp"),
     !.soname_not_regex = regex_field(section, "soname_not_regexp"),
     !.drops_artifact = drop_field(section)]

\* the part of the reader that follows the "parameter" loop
function_with_parameters(section, parms) ==
  IF parms.ret.status # "returned"
    THEN [ret |-> parms.ret, suppr |-> NoSuppr]
  ELSE [ret |-> Ret(TRUE),
        suppr |-> decl_drop_checked(function_populated(section, parms.val))]

read_function_suppression(section) ==
  IF ~check_sufficient_props(function_sufficient_props, section)
    THEN [ret |-> Ret(FALSE), suppr |-> NoSuppr]
  ELSE function_with_parameters(section, read_parameters(section.properties))

-----------------------------------------------------------------------------
(* Variable suppressions: parsing *)

VARIABLE_SUBTYPE_CHANGE_KIND == {"variable-subtype-change"}
ADDED_VARIABLE_CHANGE_KIND == {"added-variable"}
DELETED_VARIABLE_CHANGE_KIND == {"deleted-variable"}
ALL_VARIABLE_CHANGE_KIND ==
  {"variable-subtype-change", "added-variable", "deleted-variable"}

variable_parse_change_kind(s) ==
  IF s = "variable-subtype-change" THEN VARIABLE_SUBTYPE_CHANGE_KIND
  ELSE IF s = "added-variable" THEN ADDED_VARIABLE_CHANGE_KIND
  ELSE IF s = "deleted-variable" THEN DELETED_VARIABLE_CHANGE_KIND
  ELSE IF s = "all" THEN ALL_VARIABLE_CHANGE_KIND
  ELSE UNDEFINED_CHANGE_KIND

variable_suppression_default ==
  [kind |-> "variable",
   is_artificial |-> FALSE, drops_artifact |-> FALSE, label |-> "",
   file_name_regex |-> NoRegex, file_name_not_regex |-> NoRegex,
   soname_regex |-> NoRegex, soname_not_regex |-> NoRegex,
   change_kind |-> ALL_VARIABLE_CHANGE_KIND,
   name |-> "", name_regex |-> NoRegex, name_not_regex |-> NoRegex,
   symbol_name |-> "", symbol_name_regex |-> NoRegex,
   symbol_name_not_regex |-> NoRegex,
   symbol_version |-> "", symbol_version_regex |-> NoRegex,
   type_name |-> "", type_name_regex |-> NoRegex]

variable_sufficient_props ==
  {"label", "file_name_regexp", "file_name_not_regexp", "soname_regexp",
   "soname_not_regexp", "name", "name_regexp", "name_not_regexp",
   "symbol_name", "symbol_name_regexp", "symbol_name_not_regexp",
   "symbol_version", "symbol_version_regexp", "type_name",
   "type_name_regexp"}

variable_change_kind_of(str) ==
  IF str # "" THEN variable_parse_change_kind(str)
  ELSE variable_suppression_default.change_kind

variable_populated(section) ==
  [variable_suppression_default EXCEPT
     !.label = string_field(section, "label", ""),
     !.name = string_field(section, "name", ""),
     !.name_regex = regex_field(section, "name_regexp"),
     !.symbol_name = string_field(section, "symbol_name", ""),
     !.symbol_name_regex = regex_field(section, "symbol_name_regexp"),
     !.symbol_version = string_field(section, "symbol_version", ""),
     !.symbol_version_regex = regex_field(section, "symbol_version_regexp"),
     !.type_name = string_field(section, "type_name", ""),
     !.type_name_regex = regex_field(section, "type_name_regexp"),
     !.name_not_regex = regex_field(section, "name_not_regexp"),
     !.symbol_name_not_regex = regex_field(section, "symbol_name_not_regexp"),
     !.change_kind =
        variable_change_kind_of(string_field(section, "change_kind", "")),
     !.file_name_regex = regex_field(section, "file_name_regexp"),
     !.file_name_not_regex = regex_field(section, "file_name_not_regexp"),
     !.soname_regex = regex_field(section, "soname_regexp"),
     !.soname_not_regex = regex_field(section, "soname_not_regexp"),
     !.drops_artifact = drop_field(section)]

read_variable_suppression(section) ==
  IF ~check_sufficient_props(variable_sufficient_props, section)
    THEN [ret |-> Ret(FALSE), suppr |-> NoSuppr]
  ELSE [ret |-> Ret(TRUE),
        suppr |-> decl_drop_checked(variable_populated(section))]

-----------------------------------------------------------------------------
(* File suppressions: parsing *)

file_suppression_default ==
  [kind |-> "file",
   is_artificial |-> FALSE, drops_artifact |-> FALSE, label |-> "",
   file_name_regex |-> NoRegex, file_name_not_regex |-> NoRegex,
   soname_regex |-> NoRegex, soname_not_regex |-> NoRegex]

file_sufficient_props ==
  {"file_name_regexp", "file_name_not_regexp", "soname_regexp",
   "soname_not_regexp"}

has_file_name_related_property(s) ==
  ~s.file_name_regex.null \/ ~s.file_name_not_regex.null

has_soname_related_property(s) ==
  ~s.soname_regex.null \/ ~s.soname_not_regex.null

file_populated(section) ==
  [file_suppression_default EXCEPT
     !.label = string_field(section, "label", ""),
     !.file_name_regex = regex_field(section, "file_name_regexp"),
     !.file_name_not_regex = regex_field(section, "file_name_not_regexp"),
     !.soname_regex = regex_field(section, "soname_regexp"),
     !.soname_not_regex = regex_field(section, "soname_not_regexp")]

\* 'if (result->has_soname_related_property()) set_drops_artifact(true)'
file_drop_set(r) ==
  [r EXCEPT !.drops_artifact = has_soname_related_property(r)]

read_file_suppression(section) ==
  IF ~check_sufficient_props(file_sufficient_props, section)
    THEN [ret |-> Ret(FALSE), suppr |-> NoSuppr]
  ELSE [ret |-> Ret(TRUE), suppr |-> file_drop_set(file_populated(section))]

-----------------------------------------------------------------------------
(* read_suppressions(const ini::config&, suppressions_type&) *)

\* loop_body, but a failed section leaves 'success' as it was
loop_body_forgets_failure(section_success, s, supprs, succ) ==
  IF section_success
  THEN [suppressions |-> Append(supprs, s), success |-> succ]
  ELSE [suppressions |-> supprs, success |-> succ]

\* what one iteration does once the section has been read
loop_body(section_success, s, supprs, succ) ==
  IF section_success
  THEN [suppressions |-> Append(supprs, s), success |-> succ]
  ELSE [suppressions |-> supprs, success |-> FALSE]

KnownSectionNames ==
  {"suppress_type", "suppress_function", "suppress_variable", "suppress_file"}

\* the reader the loop picks for a section of a known name
read_suppression(section) ==
  CASE section.name = "suppress_type" -> read_type_suppression(section)
    [] section.name = "suppress_function" -> read_function_suppression(section)
    [] section.name = "suppress_variable" -> read_variable_suppression(section)
    [] section.name = "suppress_file" -> read_file_suppression(section)

\* the vector and the flag after the pass whose reader returned 'r'; a
\* reader that aborts ends the process inside the call
loop_step(r) ==
  IF r.ret.status = "aborted"
  THEN /\ pc' = "aborted"
       /\ UNCHANGED <<suppressions, success, idx>>
  ELSE /\ suppressions' =
            loop_body(r.ret.value, r.suppr, suppressions, success).suppressions
       /\ success' =
            loop_body(r.ret.value, r.suppr, suppressions, success).success
       /\ idx' = idx + 1
       /\ pc' = pc

\* one iteration on a section of a known name
ReadSection(section_name) ==
  /\ pc = "read_suppressions"
  /\ idx <= Len(config)
  /\ config[idx].name = section_name
  /\ loop_step(read_suppression(config[idx]))
  /\ UNCHANGED <<config, suppressions0, result, match_vars, scc_vars>>

ReadTypeSection == ReadSection("suppress_type")
ReadFunctionSection == ReadSection("suppress_function")
ReadVariableSection == ReadSection("suppress_variable")
ReadFileSection == ReadSection("suppress_file")

\* any other section name: 'success = false; continue;'
UnknownSection ==
  /\ pc = "read_suppressions"
  /\ idx <= Len(config)
  /\ config[idx].name \notin KnownSectionNames
  /\ success' = FALSE
  /\ idx' = idx + 1
  /\ UNCHANGED <<config, suppressions0, suppressions, pc, result, match_vars, scc_vars>>

\* 'return success;'
ReturnSuccess ==
  /\ pc = "read_suppressions"
  /\ idx > Len(config)
  /\ pc' = "done"
  /\ result' = Ret(success)
  /\ UNCHANGED <<parse_vars, match_vars, scc_vars>>

NextParse ==
  \/ ReadTypeSection
  \/ ReadFunctionSection
  \/ ReadVariableSection
  \/ ReadFileSection
  \/ UnknownSection
  \/ ReturnSuccess

\* the matcher's variables while the parser runs
MatcherIdle ==
  /\ suppr = NoSuppr
  /\ diff = NoNode
  /\ artifact = NoType
  /\ ctxt = NoCtxt
  /\ change = {}
  /\ type_is_private = FALSE

InitParseWith(configs, vectors) ==
  /\ SccIdle
  /\ config \in configs
  /\ suppressions0 \in vectors
  /\ suppressions = suppressions0
  /\ success = TRUE
  /\ idx = 1
  /\ pc = "read_suppressions"
  /\ MatcherIdle
  /\ result = Idle

\* --- one section at a time, over a wide choice of properties

PropCatalog ==
  { SimpleProperty("name", "S"),
    SimpleProperty("name", "T"),
    SimpleProperty("name_regexp", "^S"),
    SimpleProperty("name_regexp", "("),
    SimpleProperty("name_not_regexp", "^T"),
    SimpleProperty("label", "L"),
    SimpleProperty("drop", "yes"),
    SimpleProperty("drop_artifact", "no"),
    SimpleProperty("bogus", "x"),
    SimpleProperty("symbol_name", "f"),
    SimpleProperty("symbol_name_regexp", "("),
    SimpleProperty("symbol_name_not_regexp", "^g"),
    SimpleProperty("source_location_not_in", "foo.h"),
    SimpleProperty("source_location_not_regexp", "foo"),
    SimpleProperty("type_kind", "enum"),
    SimpleProperty("file_name_regexp", "foo"),
    SimpleProperty("soname_not_regexp", "["),
    SimpleProperty("parameter", "'0 int"),
    ListProperty("parameter", <<"int", "int">>),
    TupleProperty("has_data_member_inserted_between",
                  <<ListValue(<<"0", "end">>)>>),
    TupleProperty("has_data_member_inserted_between",
                  <<ListValue(<<"0">>)>>),
    SimpleProperty("has_data_member_inserted_at", "bogus"),
    ListProperty("changed_enumerators", <<"red", "blue">>),
    SimpleProperty("accessed_through", "pointer"),
    SimpleProperty("change_kind", "added-function"),
    SimpleProperty("allow_other_aliases", "no") }

SectionNames == KnownSectionNames \cup {"suppress_foo"}

OneSectionConfigs ==
  { <<Section(n, ps)>> : n \in SectionNames,
                         ps \in SeqsUpTo(PropCatalog, MaxProps) }

InitSection == InitParseWith(OneSectionConfigs, {<<>>})

SpecSection == InitSection /\ [][NextParse]_vars

\* --- several sections, over a few sections of each fate

LoopSections ==
  { Section("suppress_type", <<SimpleProperty("name", "S")>>),
    Section("suppress_type", <<SimpleProperty("label", "L")>>),
    Section("suppress_function", <<SimpleProperty("name_regexp", "^f"),
                                   SimpleProperty("drop", "yes")>>),
    Section("suppress_function", <<ListProperty("parameter", <<"int", "int">>)>>),
    Section("suppress_variable", <<SimpleProperty("symbol_name", "g")>>),
    Section("suppress_variable", <<SimpleProperty("bogus", "x")>>),
    Section("suppress_file", <<SimpleProperty("file_name_regexp", "foo")>>),
    Section("suppress_file", <<>>),
    Section("suppress_foo", <<SimpleProperty("name", "S")>>) }

ExistingRule == [file_suppression_default EXCEPT !.label = "already there"]

InitParse ==
  InitParseWith(SeqsUpTo(LoopSections, MaxSections), {<<>>, <<ExistingRule>>})

SpecParse == InitParse /\ [][NextParse]_vars

-----------------------------------------------------------------------------
(* Properties of the parser *)

\* the property names of each section kind, and the ones that may repeat
BinaryScopeProps ==
  {"file_name_regexp", "file_name_not_regexp", "soname_regexp",
   "soname_not_regexp"}

SchemaProps(section_name) ==
  CASE section_name = "suppress_type" ->
         BinaryScopeProps \cup
         {"label", "drop", "drop_artifact", "name", "name_regexp",
          "name_not_regexp", "type_kind", "accessed_through",
          "source_location_not_in", "source_location_not_regexp",
          "has_data_member_inserted_at", "has_data_member_inserted_between",
          "has_data_members_inserted_between", "changed_enumerators"}
    [] section_name = "suppress_function" ->
         BinaryScopeProps \cup
         {"label", "drop", "drop_artifact", "name", "name_regexp",
          "name_not_regexp", "change_kind", "allow_other_aliases",
          "symbol_name", "symbol_name_regexp", "symbol_name_not_regexp",
          "symbol_version", "symbol_version_regexp", "return_type_name",
          "return_type_regexp", "parameter"}
    [] section_name = "suppress_variable" ->
         BinaryScopeProps \cup
         {"label", "drop", "drop_artifact", "name", "name_regexp",
          "name_not_regexp", "change_kind", "symbol_name",
          "symbol_name_regexp", "symbol_name_not_regexp", "symbol_version",
          "symbol_version_regexp", "type_name", "type_name_regexp"}
    [] section_name = "suppress_file" -> BinaryScopeProps \cup {"label"}
    [] OTHER -> {}

RepeatableProps == {"parameter"}

RegexProps ==
  {"name_regexp", "name_not_regexp", "file_name_regexp",
   "file_name_not_regexp", "soname_regexp", "soname_not_regexp",
   "source_location_not_regexp", "symbol_name_regexp",
   "symbol_name_not_regexp", "symbol_version_regexp", "return_type_regexp",
   "type_name_regexp"}

AllPropsKnown(section) ==
  \A k \in 1..Len(section.properties) :
    section.properties[k].name \in SchemaProps(section.name)

NoForbiddenRepeat(section) ==
  \A j, k \in 1..Len(section.properties) :
    (j < k /\ section.properties[j].name = section.properties[k].name)
      => section.properties[j].name \in RepeatableProps

HasUncompilableRegex(section) ==
  \E k \in 1..Len(section.properties) :
    LET p == section.properties[k]
    IN /\ p.name \in RegexProps \cap SchemaProps(section.name)
       /\ is_simple_property(p)
       /\ as_string(p) # ""
       /\ regex_compile(as_string(p)).null

\* the run over a single section has returned
SectionDone == pc = "done" /\ Len(config) = 1 /\ suppressions0 = <<>>
SectionAccepted == SectionDone /\ Len(suppressions) = 1
TheSection == config[1]
TheRule == suppressions[1]

\* C1 (as claimed): a section is accepted only if every property it holds is
\* known to the schema of its kind and no non-repeatable property occurs
\* twice.
C1_AcceptedOnlyIfKnownAndUnrepeated ==
  SectionAccepted =>
    AllPropsKnown(TheSection) /\ NoForbiddenRepeat(TheSection)

\* C2 (as claimed): a section with a regex-valued property whose non-empty
\* source does not compile yields no rule.
C2_BadRegexRejectsSection ==
  (SectionDone /\ HasUncompilableRegex(TheSection)) => suppressions = <<>>

\* the name, symbol-name and location predicates that justify 'drop'
DropJustifyingProps(section_name) ==
  IF section_name = "suppress_type"
  THEN {"name", "name_regexp", "name_not_regexp", "source_location_not_in",
        "source_location_not_regexp"}
  ELSE {"name", "name_regexp", "name_not_regexp", "symbol_name",
        "symbol_name_regexp", "symbol_name_not_regexp"}

CarriesDropJustification(section) ==
  \E n \in DropJustifyingProps(section.name) : has_property(section, n)

\* C4 (as claimed): in an accepted suppress_type / suppress_function /
\* suppress_variable section that sets drop (or drop_artifact) to yes, the
\* rule has drop_from_ir = true iff the section carries at least one name,
\* symbol-name or source-location predicate.
C4_DropKeptIffPredicateCarried ==
  (/\ SectionAccepted
   /\ TheSection.name \in {"suppress_type", "suppress_function",
                           "suppress_variable"}
   /\ drop_field(TheSection))
  => (TheRule.drops_artifact <=> CarriesDropJustification(TheSection))

\* a rule that has at least one matching predicate
HasScopePredicate(r) ==
  has_file_name_related_property(r) \/ has_soname_related_property(r)

HasPredicate(r) ==
  \/ HasScopePredicate(r)
  \/ /\ r.kind = "type"
     /\ \/ r.type_name # "" \/ ~r.type_name_regex.null
        \/ ~r.type_name_not_regex.null \/ r.consider_type_kind
        \/ r.source_locations_to_keep # {}
        \/ ~r.source_location_to_keep_regex.null
  \/ /\ r.kind \in {"function", "variable"}
     /\ \/ r.name # "" \/ ~r.name_regex.null \/ ~r.name_not_regex.null
        \/ r.symbol_name # "" \/ ~r.symbol_name_regex.null
        \/ ~r.symbol_name_not_regex.null
        \/ r.symbol_version # "" \/ ~r.symbol_version_regex.null
  \/ /\ r.kind = "function"
     /\ \/ r.return_type_name # "" \/ ~r.return_type_regex.null
        \/ r.parm_specs # <<>>
  \/ /\ r.kind = "variable"
     /\ (r.type_name # "" \/ ~r.type_name_regex.null)

\* C5 (as claimed): no accepted section yields an empty matcher: every rule
\* the parser produces carries at least one matching predicate.
C5_NoEmptyMatcher ==
  SectionAccepted => HasPredicate(TheRule)

\* what the reader of the section's kind makes of a section
ReadOf(section) ==
  CASE section.name = "suppress_type" -> read_type_suppression(section)
    [] section.name = "suppress_function" -> read_function_suppression(section)
    [] section.name = "suppress_variable" -> read_variable_suppression(section)
    [] section.name = "suppress_file" -> read_file_suppression(section)
    [] OTHER -> [ret |-> Ret(FALSE), suppr |-> NoSuppr]

IsAccepted(section) ==
  ReadOf(section).ret.status = "returned" /\ ReadOf(section).ret.value

RECURSIVE AcceptedRules(_)
AcceptedRules(sections) ==
  IF sections = <<>> THEN <<>>
  ELSE (IF IsAccepted(Head(sections))
        THEN <<ReadOf(Head(sections)).suppr>> ELSE <<>>)
       \o AcceptedRules(Tail(sections))

-----------------------------------------------------------------------------
(* The IR the matcher reads (abg-ir): types, data members, declarations *)

DataMember(n, o, laid, sz) ==
  [name |-> n, offset |-> o, laid_out |-> laid, size_in_bits |-> sz]

\* a type; kind is "class", "union", "enum", "array", "typedef", "builtin",
\* "pointer", "reference" or "qualified"; loc is "" when it has no location
Type(knd, n, location) ==
  [kind |-> knd, name |-> n, loc |-> location, is_struct |-> FALSE,
   is_declaration_only |-> FALSE, definition_of_declaration |-> FALSE,
   size_in_bits |-> 0, data_members |-> <<>>, underlying |-> NoType]

is_class_type(t) == t.kind = "class"
is_union_type(t) == t.kind = "union"
is_enum_type(t)  == t.kind = "enum"
is_array_type(t) == t.kind = "array"
is_typedef(t)    == t.kind = "typedef"
is_type_decl(t)  == t.kind = "builtin"
get_name(t)      == t.name
get_location(t)  == t.loc

RECURSIVE peel_typedef_type(_)
peel_typedef_type(t) ==
  IF is_typedef(t) THEN peel_typedef_type(t.underlying) ELSE t

\* tools_utils::base_name on the paths of the model
base_name(path) ==
  CASE path = "/usr/lib/libfoo.so" -> "libfoo.so"
    [] path = "/usr/lib/libbar.so" -> "libbar.so"
    [] path = "/usr/lib/libbaz.so" -> "libbaz.so"
    [] path = "/usr/lib/libfoo.so.3" -> "libfoo.so.3"
    [] path = "/usr/lib/libbar.so.1" -> "libbar.so.1"
    [] path = "include/foo.h"      -> "foo.h"
    [] path = "include/bar.h"      -> "bar.h"
    [] OTHER                       -> path

\* an ELF symbol with the names of the aliases that follow it up to the main
\* symbol
NoSym == [null |-> TRUE, name |-> "", version |-> "", aliases |-> <<>>]
Sym(n, v, al) == [null |-> FALSE, name |-> n, version |-> v, aliases |-> al]
has_aliases(sym) == sym.aliases # <<>>
get_alias_from_name(sym, n) == n = sym.name \/ n \in Range(sym.aliases)

Function(n, sym, ret, parms, class) ==
  [kind |-> "function", qualified_name |-> n, symbol |-> sym,
   return_type_name |-> ret, parm_type_names |-> parms, class_type |-> class]

Variable(n, sym, tn) ==
  [kind |-> "variable", qualified_name |-> n, symbol |-> sym,
   type_name |-> tn]

\* diff_context: the paths and the SONAMEs of the two corpora
Ctxt(p1, p2, s1, s2) ==
  [null |-> FALSE, first_path |-> p1, second_path |-> p2,
   first_soname |-> s1, second_soname |-> s2]

-----------------------------------------------------------------------------
(* Outcomes of calls that can assert or run into undefined behaviour *)

\* 'if (!a) return false; return b;' when the call 'a' may not return
and_then(a, b) == IF a = Ret(TRUE) THEN b ELSE a

\* 'a || b' when the calls may not return
or_else(a, b) == IF a = Ret(FALSE) THEN b ELSE a

\* the process dies on a signal
Crashed == [status |-> "crashed", value |-> FALSE]

\* what a build can do with a call that ends as 'out'
Outcomes(out) ==
  IF out = Undefined THEN {Ret(TRUE), Ret(FALSE), Crashed} ELSE {out}

-----------------------------------------------------------------------------
(* suppression_base: the file name and SONAME of the binaries *)

matches_soname(s, soname) ==
  IF ~s.soname_regex.null /\ ~regex_match(s.soname_regex, soname) THEN FALSE
  ELSE IF ~s.soname_not_regex.null /\ regex_match(s.soname_not_regex, soname)
    THEN FALSE
  ELSE IF s.soname_regex.null /\ s.soname_not_regex.null THEN FALSE
  ELSE TRUE

matches_binary_name(s, binary_name) ==
  IF ~s.file_name_regex.null /\ ~regex_match(s.file_name_regex, binary_name)
    THEN FALSE
  ELSE IF /\ ~s.file_name_not_regex.null
          /\ regex_match(s.file_name_not_regex, binary_name)
    THEN FALSE
  ELSE IF s.file_name_regex.null /\ s.file_name_not_regex.null THEN FALSE
  ELSE TRUE

suppression_matches_soname(soname, s) == matches_soname(s, soname)

sonames_of_binaries_match(s, c) ==
  IF ~has_soname_related_property(s) THEN FALSE
  ELSE IF /\ ~suppression_matches_soname(c.first_soname, s)
          /\ ~suppression_matches_soname(c.second_soname, s)
    THEN FALSE
  ELSE TRUE

\* names_of_binaries_match, but no binary is ever looked at
names_of_binaries_match_unchecked(s, c) == TRUE

names_of_binaries_match(s, c) ==
  IF ~has_file_name_related_property(s) THEN FALSE
  ELSE IF /\ ~matches_binary_name(s, c.first_path)
          /\ ~matches_binary_name(s, c.second_path)
    THEN FALSE
  ELSE TRUE

\* 'if (ctxt) { ... return false; ... return false; }': whether the rule goes
\* on to look at the artifact
binaries_match(s, c) ==
  IF c.null THEN TRUE
  ELSE IF ~names_of_binaries_match(s, c) /\ has_file_name_related_property(s)
    THEN FALSE
  ELSE IF ~sonames_of_binaries_match(s, c) /\ has_soname_related_property(s)
    THEN FALSE
  ELSE TRUE

-----------------------------------------------------------------------------
(* Type suppressions: matching a type *)

get_private_types_suppr_spec_label ==
  "Artificial private types suppression specification"

is_private_type_suppr_spec(s) == s.label = get_private_types_suppr_spec_label

\* the switch on the type kind of the rule
type_kind_matches(tk, type) ==
  CASE tk \in {"unknown", "class"} -> is_class_type(type)
    [] tk = "struct"  -> is_class_type(type) /\ type.is_struct
    [] tk = "union"   -> is_union_type(type)
    [] tk = "enum"    -> is_enum_type(type)
    [] tk = "array"   -> is_array_type(type)
    [] tk = "typedef" -> is_typedef(type)
    [] tk = "builtin" -> is_type_decl(type)

\* 'source_location_not_regexp' or 'source_location_not_in' is set
has_location_property(s) ==
  s.source_locations_to_keep # {} \/ ~s.source_location_to_keep_regex.null

\* suppression_matches_type_location(s, const location&), but the base name
\* of the path is not looked up
suppression_matches_location_by_path_only(s, loc) ==
  IF loc # ""
  THEN IF /\ ~s.source_location_to_keep_regex.null
          /\ regex_match(s.source_location_to_keep_regex, loc)
         THEN FALSE
       ELSE IF loc \in s.source_locations_to_keep THEN FALSE
       ELSE TRUE
  ELSE ~has_location_property(s)

\* suppression_matches_type_location(s, const location&)
suppression_matches_location(s, loc) ==
  IF loc # ""
  THEN IF /\ ~s.source_location_to_keep_regex.null
          /\ regex_match(s.source_location_to_keep_regex, loc)
         THEN FALSE
       ELSE IF base_name(loc) \in s.source_locations_to_keep THEN FALSE
       ELSE IF loc \in s.source_locations_to_keep THEN FALSE
       ELSE TRUE
  ELSE ~has_location_property(s)

\* suppression_matches_type_location(s, const type_base_sptr&)
suppression_matches_type_location(s, type) ==
  IF get_location(type) # ""
    THEN Ret(suppression_matches_location(s, get_location(type)))
  ELSE IF /\ s.is_artificial
          /\ is_class_type(type)
          /\ type.is_declaration_only
          /\ type.definition_of_declaration
    THEN Aborted
  ELSE IF /\ s.is_artificial
          /\ is_class_type(type)
          /\ s.label = get_private_types_suppr_spec_label
    THEN Ret(TRUE)
  ELSE Ret(~has_location_property(s))

suppression_matches_type_no_name(s, type) ==
  IF s.consider_type_kind /\ ~type_kind_matches(s.type_kind, type)
    THEN Ret(FALSE)
  ELSE suppression_matches_type_location(s, type)

suppression_matches_type_name(s, type_name) ==
  IF s.type_name # "" THEN s.type_name = type_name
  ELSE IF /\ ~s.type_name_regex.null
          /\ ~regex_match(s.type_name_regex, type_name)
    THEN FALSE
  ELSE IF /\ ~s.type_name_not_regex.null
          /\ regex_match(s.type_name_not_regex, type_name)
    THEN FALSE
  ELSE TRUE

\* type_suppression::suppresses_type(const type_base_sptr&)
suppresses_type(s, type) ==
  and_then(suppression_matches_type_no_name(s, type),
           Ret(suppression_matches_type_name(s, get_name(type))))

\* type_suppression::suppresses_type(const type_base_sptr&,
\*                                   const diff_context_sptr&)
suppresses_type_ctxt(s, type, c) ==
  IF ~binaries_match(s, c) THEN Ret(FALSE) ELSE suppresses_type(s, type)

-----------------------------------------------------------------------------
(* Function suppressions: matching a function *)

\* 'get_allow_other_aliases() && fn->get_symbol()
\*  && fn->get_symbol()->get_alias_from_name(fname)', then 'has_aliases()'
checks_aliases_of_name(s, fn) ==
  /\ s.allow_other_aliases
  /\ ~fn.symbol.null
  /\ get_alias_from_name(fn.symbol, fn.qualified_name)
  /\ has_aliases(fn.symbol)

\* the "name" property
function_name_matches(s, fn) ==
  IF s.name = "" THEN TRUE
  ELSE IF s.name # fn.qualified_name THEN FALSE
  ELSE IF checks_aliases_of_name(s, fn)
    THEN \A a \in Range(fn.symbol.aliases) : a = fn.symbol.name
  ELSE TRUE

\* the "name_regexp" property
function_name_regex_matches(s, fn) ==
  IF s.name_regex.null THEN TRUE
  ELSE IF ~regex_match(s.name_regex, fn.qualified_name) THEN FALSE
  ELSE IF checks_aliases_of_name(s, fn)
    THEN \A a \in Range(fn.symbol.aliases) : regex_match(s.name_regex, a)
  ELSE TRUE

\* the "name_not_regexp" property; its loop over the aliases matches them
\* against name_regex, which may be a null pointer
function_name_not_regex_matches(s, fn) ==
  IF s.name_not_regex.null THEN Ret(TRUE)
  ELSE IF regex_match(s.name_not_regex, fn.qualified_name) THEN Ret(FALSE)
  ELSE IF checks_aliases_of_name(s, fn)
    THEN IF s.name_regex.null THEN Undefined
         ELSE Ret(\A a \in Range(fn.symbol.aliases) :
                     ~regex_match(s.name_regex, a))
  ELSE Ret(TRUE)

\* the "return_type_name" and "return_type_regexp" properties
function_return_type_matches(s, fn) ==
  IF s.return_type_name # "" THEN fn.return_type_name = s.return_type_name
  ELSE IF ~s.return_type_regex.null
    THEN regex_match(s.return_type_regex, fn.return_type_name)
  ELSE TRUE

\* "symbol_name_regexp" and "symbol_name_not_regexp" on one symbol name
symbol_name_regexes_match(s, sym_name) ==
  /\ s.symbol_name_regex.null \/ regex_match(s.symbol_name_regex, sym_name)
  /\ \/ s.symbol_name_not_regex.null
     \/ ~regex_match(s.symbol_name_not_regex, sym_name)

\* the "symbol_name", "symbol_name_regexp", "symbol_name_not_regexp" properties
function_symbol_name_matches(s, fn) ==
  IF fn.symbol.null THEN TRUE
  ELSE IF s.symbol_name # ""
    THEN /\ fn.symbol.name = s.symbol_name
         /\ s.allow_other_aliases =>
              \A a \in Range(fn.symbol.aliases) : a = fn.symbol.name
  ELSE /\ symbol_name_regexes_match(s, fn.symbol.name)
       /\ s.allow_other_aliases =>
            \A a \in Range(fn.symbol.aliases) : symbol_name_regexes_match(s, a)

\* the "symbol_version" and "symbol_version_regexp" properties
symbol_version_matches(s, sym_version) ==
  IF s.symbol_version # "" THEN sym_version = s.symbol_version
  ELSE IF ~s.symbol_version_regex.null
    THEN regex_match(s.symbol_version_regex, sym_version)
  ELSE TRUE

\* one parameter_spec against the parameter of that index
parameter_matches(spec, fn) ==
  IF spec.index + 1 > Len(fn.parm_type_names) THEN FALSE
  ELSE IF spec.type_name # ""
    THEN spec.type_name = fn.parm_type_names[spec.index + 1]
  ELSE IF ~spec.type_name_regex.null
    THEN regex_match(spec.type_name_regex, fn.parm_type_names[spec.index + 1])
  ELSE TRUE

\* suppresses_function from the return type on
function_rest_matches(s, fn) ==
  /\ function_return_type_matches(s, fn)
  /\ function_symbol_name_matches(s, fn)
  /\ fn.symbol.null \/ symbol_version_matches(s, fn.symbol.version)
  /\ \A i \in 1..Len(s.parm_specs) : parameter_matches(s.parm_specs[i], fn)

\* function_suppression::suppresses_function(fn, k, ctxt)
suppresses_function(s, fn, kind, c) ==
  IF s.change_kind \cap kind = {} THEN Ret(FALSE)
  ELSE IF ~binaries_match(s, c) THEN Ret(FALSE)
  ELSE IF ~function_name_matches(s, fn) THEN Ret(FALSE)
  ELSE IF ~function_name_regex_matches(s, fn) THEN Ret(FALSE)
  ELSE and_then(function_name_not_regex_matches(s, fn),
                Ret(function_rest_matches(s, fn)))

-----------------------------------------------------------------------------
(* Variable suppressions: matching a variable *)

\* "name", or else "name_regexp" and "name_not_regexp"
variable_name_matches(s, var_name) ==
  IF s.name # "" THEN s.name = var_name
  ELSE /\ s.name_regex.null \/ regex_match(s.name_regex, var_name)
       /\ s.name_not_regex.null \/ ~regex_match(s.name_not_regex, var_name)

\* "symbol_name", or else "symbol_name_regexp" and "symbol_name_not_regexp"
variable_symbol_name_matches(s, var_sym_name) ==
  IF s.symbol_name # "" THEN s.symbol_name = var_sym_name
  ELSE symbol_name_regexes_match(s, var_sym_name)

\* "type_name", or else "type_name_regexp"
variable_type_matches(s, var_type_name) ==
  IF s.type_name # "" THEN s.type_name = var_type_name
  ELSE s.type_name_regex.null \/ regex_match(s.type_name_regex, var_type_name)

\* variable_suppression::suppresses_variable(var, k, ctxt)
suppresses_variable(s, var, kind, c) ==
  IF s.change_kind \cap kind = {} THEN Ret(FALSE)
  ELSE IF ~binaries_match(s, c) THEN Ret(FALSE)
  ELSE Ret(/\ variable_name_matches(s, var.qualified_name)
           /\ variable_symbol_name_matches(s, var.symbol.name)
           /\ symbol_version_matches(s, var.symbol.version)
           /\ variable_type_matches(s, var.type_name))

-----------------------------------------------------------------------------
(* Diff nodes (abg-comparison) *)

\* a diff node; first and second are its subjects
Diff(knd, first, second) ==
  [kind |-> knd, first |-> first, second |-> second, underlying |-> NoNode,
   deleted_data_members |-> {}, inserted_data_members |-> {},
   deleted_enumerators |-> {}, changed_enumerators |-> {},
   has_virtual_mem_fn_change |-> FALSE]

TypeDiffKinds ==
  {"class_diff", "enum_diff", "typedef_diff", "pointer_diff",
   "reference_diff", "qualified_type_diff"}

\* the dynamic casts: the node, or a null pointer
is_type_diff(d) == IF d.kind \in TypeDiffKinds THEN d ELSE NoNode
is_function_decl_diff(d) == d.kind = "function_decl_diff"
is_var_diff(d) == d.kind = "var_diff"
is_pointer_diff(d) == d.kind = "pointer_diff"
is_reference_diff(d) == d.kind = "reference_diff"

RECURSIVE peel_qualified_diff(_)
peel_qualified_diff(d) ==
  IF d.kind = "qualified_type_diff" THEN peel_qualified_diff(d.underlying)
  ELSE d

RECURSIVE get_typedef_diff_underlying_type_diff(_)
get_typedef_diff_underlying_type_diff(d) ==
  IF d.kind = "typedef_diff"
  THEN get_typedef_diff_underlying_type_diff(d.underlying)
  ELSE d

-----------------------------------------------------------------------------
(* Evaluation of offsets against a class *)

get_data_member_offset(m) == m.offset
get_data_member_is_laid_out(m) == m.laid_out
get_last_data_member(klass) == klass.data_members[Len(klass.data_members)]

\* positions of the laid-out data members called n
laid_out_members_named(klass, n) ==
  {i \in 1..Len(klass.data_members) :
     /\ get_data_member_is_laid_out(klass.data_members[i])
     /\ klass.data_members[i].name = n}

\* positions of the laid-out data members that follow position i
laid_out_members_after(klass, i) ==
  {j \in (i + 1)..Len(klass.data_members) :
     get_data_member_is_laid_out(klass.data_members[j])}

least(I) == CHOOSE i \in I : \A j \in I : i <= j

\* offset + size, whether or not a member follows
offset_after_member_by_size(klass, i) ==
  get_data_member_offset(klass.data_members[i])
    + klass.data_members[i].size_in_bits

\* get_next_data_member_offset, or offset + size when there is no next member
offset_after_member(klass, i) ==
  IF laid_out_members_after(klass, i) # {}
  THEN get_data_member_offset(
         klass.data_members[least(laid_out_members_after(klass, i))])
  ELSE get_data_member_offset(klass.data_members[i])
         + klass.data_members[i].size_in_bits

\* what eval leaves: a value, a failure ('return false'), or a null
\* dereference
Value(v) == [status |-> "value", value |-> v]
EvalFailed == [status |-> "failed", value |-> 0]
EvalUndefined == [status |-> "undefined", value |-> 0]

integer_offset_eval(o) == Value(o.value)

fn_call_expr_offset_eval(o, context) ==
  IF o.expr.null THEN EvalUndefined
  ELSE IF /\ o.expr.name \in {"offset_of", "offset_after"}
          /\ Len(o.expr.arguments) = 1
          /\ laid_out_members_named(context, o.expr.arguments[1]) # {}
    THEN IF o.expr.name = "offset_of"
         THEN Value(get_data_member_offset(
                context.data_members[
                  least(laid_out_members_named(context,
                                               o.expr.arguments[1]))]))
         ELSE Value(offset_after_member(
                context,
                least(laid_out_members_named(context, o.expr.arguments[1]))))
  ELSE EvalFailed

\* the virtual call offset::eval
eval(o, context) ==
  IF o.tag = "integer_offset" THEN integer_offset_eval(o)
  ELSE fn_call_expr_offset_eval(o, context)

-----------------------------------------------------------------------------
(* type_suppression::suppresses_diff *)

\* range_admits, but a member matches at the begin of the range only
range_admits_at_begin_only(range_begin, range_end, dm_offset, first_type_decl, matched) ==
  IF /\ boundary_value_is_end(range_begin)
     /\ boundary_value_is_end(range_end)
     /\ dm_offset > get_data_member_offset(get_last_data_member(first_type_decl))
    THEN TRUE
  ELSE IF range_begin > range_end THEN matched
  ELSE IF dm_offset # range_begin THEN matched
  ELSE TRUE

\* the body of the loop over the ranges once both bounds have a value:
\* the new value of 'matched'
range_admits(range_begin, range_end, dm_offset, first_type_decl, matched) ==
  IF /\ boundary_value_is_end(range_begin)
     /\ boundary_value_is_end(range_end)
     /\ dm_offset > get_data_member_offset(get_last_data_member(first_type_decl))
    THEN TRUE
  ELSE IF range_begin > range_end THEN matched
  ELSE IF dm_offset < range_begin \/ dm_offset > range_end THEN matched
  ELSE TRUE

\* the loop over the ranges for one inserted data member: 'matched' when it
\* ends; a bound that does not evaluate breaks out of the loop
RECURSIVE ranges_loop(_, _, _, _)
ranges_loop(ranges, dm_offset, first_type_decl, matched) ==
  IF ranges = <<>> THEN Ret(matched)
  ELSE IF eval(Head(ranges).begin, first_type_decl).status = "undefined"
    THEN Undefined
  ELSE IF eval(Head(ranges).begin, first_type_decl).status = "failed"
    THEN Ret(matched)
  ELSE IF eval(Head(ranges).end, first_type_decl).status = "undefined"
    THEN Undefined
  ELSE IF eval(Head(ranges).end, first_type_decl).status = "failed"
    THEN Ret(matched)
  ELSE ranges_loop(
         Tail(ranges), dm_offset, first_type_decl,
         range_admits(eval(Head(ranges).begin, first_type_decl).value,
                      eval(Head(ranges).end, first_type_decl).value,
                      dm_offset, first_type_decl, matched))

\* the loop over the inserted data members, which the map hands out in no
\* particular order
inserted_members_loop(s, klass_diff) ==
  IF \E m \in klass_diff.inserted_data_members :
       ranges_loop(s.insertion_ranges, get_data_member_offset(m),
                   klass_diff.first, FALSE) = Undefined
    THEN Undefined
  ELSE Ret(\A m \in klass_diff.inserted_data_members :
             ranges_loop(s.insertion_ranges, get_data_member_offset(m),
                         klass_diff.first, FALSE) = Ret(TRUE))

\* class_diff_check, but without the comparison of the two sizes
class_diff_check_ignoring_size(s, d) ==
  IF d.kind # "class_diff" \/ s.insertion_ranges = <<>> THEN Ret(TRUE)
  ELSE IF d.deleted_data_members = {}
    THEN inserted_members_loop(s, d)
  ELSE Ret(FALSE)

\* the class diff part: Ret(TRUE) when the function goes on
class_diff_check(s, d) ==
  IF d.kind # "class_diff" \/ s.insertion_ranges = <<>> THEN Ret(TRUE)
  ELSE IF /\ d.deleted_data_members = {}
          /\ d.first.size_in_bits <= d.second.size_in_bits
    THEN inserted_members_loop(s, d)
  ELSE Ret(FALSE)

\* the loop over the changed enumerators, but one listed name is enough
some_changed_enumerator_listed(names, changed) ==
  \E n \in changed : n \in Range(names)

\* the loop over the changed enumerators: 'matched' when it ends
all_changed_enumerators_listed(names, changed) ==
  \A n \in changed : n \in Range(names)

\* the enum diff part
enum_diff_check(s, d) ==
  IF /\ d.kind = "enum_diff"
     /\ d.deleted_enumerators = {}
     /\ d.first.size_in_bits = d.second.size_in_bits
     /\ d.changed_enumerators # {}
  THEN all_changed_enumerators_listed(s.changed_enumerator_names,
                                      d.changed_enumerators)
  ELSE TRUE

\* from 'const class_diff* klass_diff = ...' to the end; d may be null
class_and_enum_checks(s, d) ==
  and_then(class_diff_check(s, d), Ret(enum_diff_check(s, d)))

\* '!suppresses_type(ft, ctxt) && !suppresses_type(st, ctxt)' is false
either_type_suppressed(s, ft, st, c) ==
  or_else(suppresses_type_ctxt(s, ft, c), suppresses_type_ctxt(s, st, c))

\* the second attempt, typedefs peeled unless the rule is the private types
\* one
either_peeled_type_suppressed(s, ft, st, c) ==
  IF is_private_type_suppr_spec(s) THEN either_type_suppressed(s, ft, st, c)
  ELSE either_type_suppressed(s, peel_typedef_type(ft),
                              peel_typedef_type(st), c)

\* from 'ft = is_type(d->first_subject())' on, for a non-null d
subjects_check(s, d, c) ==
  IF either_type_suppressed(s, d.first, d.second, c) = Ret(TRUE)
    THEN class_and_enum_checks(s, d)
  ELSE IF either_type_suppressed(s, d.first, d.second, c) # Ret(FALSE)
    THEN either_type_suppressed(s, d.first, d.second, c)
  ELSE and_then(
         either_peeled_type_suppressed(s, d.first, d.second, c),
         class_and_enum_checks(
           s, is_type_diff(get_typedef_diff_underlying_type_diff(d))))

\* from 'type_base_sptr ft, st;' on: d is dereferenced whatever it is
after_reach_kind(s, d, c) ==
  IF d = NoNode THEN Undefined ELSE subjects_check(s, d, c)

\* 'd = is_type_diff(underlying); if (!d) return false;
\*  d = is_type_diff(peel_qualified_diff(d));'
through_underlying_or_false(s, underlying, c) ==
  IF is_type_diff(underlying) = NoNode THEN Ret(FALSE)
  ELSE after_reach_kind(s, is_type_diff(peel_qualified_diff(underlying)), c)

\* 'd = is_type_diff(underlying); ABG_ASSERT(d);
\*  d = is_type_diff(peel_qualified_diff(d));'
through_underlying_or_assert(s, underlying, c) ==
  IF is_type_diff(underlying) = NoNode THEN Aborted
  ELSE after_reach_kind(s, is_type_diff(peel_qualified_diff(underlying)), c)

\* the reach kind gate, for a diff that is a type diff
reach_kind_check(s, d, c) ==
  IF ~s.consider_reach_kind THEN after_reach_kind(s, d, c)
  ELSE IF s.reach_kind = "pointer"
    THEN IF is_pointer_diff(d)
         THEN through_underlying_or_false(s, d.underlying, c)
         ELSE Ret(FALSE)
  ELSE IF s.reach_kind = "reference"
    THEN IF is_reference_diff(d)
         THEN through_underlying_or_false(s, d.underlying, c)
         ELSE Ret(FALSE)
  ELSE IF s.reach_kind = "reference-or-pointer"
    THEN IF is_pointer_diff(d) \/ is_reference_diff(d)
         THEN through_underlying_or_assert(s, d.underlying, c)
         ELSE Ret(FALSE)
  ELSE after_reach_kind(s, d, c)

\* the diff is not a type diff: a function diff that carries a change of a
\* virtual member function is matched through the class of the function
virtual_member_function_check(s, d, c) ==
  IF is_function_decl_diff(d) /\ d.has_virtual_mem_fn_change
  THEN IF ~is_class_type(d.first.class_type) THEN Aborted
       ELSE suppresses_type_ctxt(s, d.first.class_type, c)
  ELSE Ret(FALSE)

type_suppression_suppresses_diff(s, d, c) ==
  IF is_type_diff(d) = NoNode THEN virtual_member_function_check(s, d, c)
  ELSE reach_kind_check(s, d, c)

-----------------------------------------------------------------------------
(* suppresses_diff of the other rules, and file_suppression::suppresses_file *)

\* function_suppression::suppresses_diff, but asking the first function only
function_suppression_suppresses_diff_first_side(s, d, c) ==
  IF ~is_function_decl_diff(d) THEN Ret(FALSE)
  ELSE suppresses_function(s, d.first, FUNCTION_SUBTYPE_CHANGE_KIND, c)

\* function_suppression::suppresses_diff(diff)
function_suppression_suppresses_diff(s, d, c) ==
  IF ~is_function_decl_diff(d) THEN Ret(FALSE)
  ELSE or_else(
         suppresses_function(s, d.first, FUNCTION_SUBTYPE_CHANGE_KIND, c),
         suppresses_function(s, d.second, FUNCTION_SUBTYPE_CHANGE_KIND, c))

variable_suppression_suppresses_diff(s, d, c) ==
  IF ~is_var_diff(d) THEN Ret(FALSE)
  ELSE or_else(
         suppresses_variable(s, d.first, VARIABLE_SUBTYPE_CHANGE_KIND, c),
         suppresses_variable(s, d.second, VARIABLE_SUBTYPE_CHANGE_KIND, c))

file_suppression_suppresses_diff(s, d) == Ret(FALSE)

\* suppresses_file, but matching the whole path where the code matches the
\* base name
suppresses_file_on_whole_path(s, file_path) ==
  IF file_path = "" THEN FALSE
  ELSE IF /\ ~s.file_name_regex.null
          /\ ~regex_match(s.file_name_regex, file_path)
    THEN FALSE
  ELSE IF /\ ~s.file_name_not_regex.null
          /\ regex_match(s.file_name_not_regex, file_path)
    THEN FALSE
  ELSE IF s.file_name_regex.null /\ s.file_name_not_regex.null THEN FALSE
  ELSE TRUE

suppresses_file(s, file_path) ==
  IF file_path = "" THEN FALSE
  ELSE IF /\ ~s.file_name_regex.null
          /\ ~regex_match(s.file_name_regex, base_name(file_path))
    THEN FALSE
  ELSE IF /\ ~s.file_name_not_regex.null
          /\ regex_match(s.file_name_not_regex, base_name(file_path))
    THEN FALSE
  ELSE IF s.file_name_regex.null /\ s.file_name_not_regex.null THEN FALSE
  ELSE TRUE

-----------------------------------------------------------------------------
(* The matcher's entry points that take a diff context *)

\* the parser's variables while the matcher runs
ParserIdle ==
  /\ config = <<>>
  /\ suppressions0 = <<>>
  /\ suppressions = <<>>
  /\ success = TRUE
  /\ idx = 1

\* the call ends as 'out'
Return(out) ==
  /\ result' \in Outcomes(out)
  /\ pc' = IF out = Ret(TRUE) \/ out = Ret(FALSE) THEN "done" ELSE "aborted"
  /\ UNCHANGED <<parse_vars, match_vars, scc_vars>>

SuppressesType ==
  /\ pc = "suppresses_type"
  /\ Return(suppresses_type_ctxt(suppr, artifact, ctxt))

SuppressesFunction ==
  /\ pc = "suppresses_function"
  /\ Return(suppresses_function(suppr, artifact, change, ctxt))

SuppressesVariable ==
  /\ pc = "suppresses_variable"
  /\ Return(suppresses_variable(suppr, artifact, change, ctxt))

NextScope ==
  \/ SuppressesType
  \/ SuppressesFunction
  \/ SuppressesVariable

\* --- the rules, artifacts and contexts the entry points are run on

\* the rules the parser makes of a set of sections
RulesOf(sections) ==
  {read_suppression(sec).suppr :
     sec \in {x \in sections : read_suppression(x).ret = Ret(TRUE)}}

ScopeProps ==
  {SimpleProperty("file_name_regexp", "foo"),
   SimpleProperty("file_name_regexp", "bar"),
   SimpleProperty("file_name_not_regexp", "foo"),
   SimpleProperty("soname_regexp", "foo"),
   SimpleProperty("soname_not_regexp", "bar"),
   SimpleProperty("soname_not_regexp", ".*")}

\* what the rule says of the artifact itself
ArtifactProps(section_name) ==
  CASE section_name = "suppress_type" ->
         {<<SimpleProperty("name", "S")>>,
          <<SimpleProperty("name_regexp", "^T")>>,
          <<SimpleProperty("name_regexp", "^T"),
            SimpleProperty("source_location_not_in", "foo.h")>>,
          <<SimpleProperty("name_regexp", "^T"),
            ListProperty("source_location_not_in",
                         <<"include/bar.h", "baz.h">>)>>,
          <<SimpleProperty("name", "S"),
            SimpleProperty("source_location_not_regexp", "foo")>>}
    [] section_name = "suppress_function" ->
         {<<SimpleProperty("name", "f")>>,
          <<SimpleProperty("name_not_regexp", "^g")>>,
          <<SimpleProperty("change_kind", "added-function"),
            SimpleProperty("symbol_name", "f")>>}
    [] section_name = "suppress_variable" ->
         {<<SimpleProperty("name", "V1")>>,
          <<SimpleProperty("type_name_regexp", "^int$")>>}

ScopeSectionNames ==
  {"suppress_type", "suppress_function", "suppress_variable"}

ScopeSections ==
  UNION {{Section(n, scope \o ps) :
            scope \in SeqsUpTo(ScopeProps, MaxProps),
            ps \in ArtifactProps(n)} : n \in ScopeSectionNames}

ScopeTypes ==
  {Type("class", "S", "include/foo.h"), Type("class", "T", ""),
   Type("enum", "S", ""), Type("class", "T", "include/foo.h"),
   Type("class", "T", "include/bar.h"), Type("class", "S", "include/bar.h")}

ScopeFunctions ==
  {Function("f", Sym("f", "", <<>>), "int", <<"int">>, NoType),
   Function("g", Sym("g", "", <<"f">>), "void", <<>>, NoType),
   Function("f2", Sym("f2", "", <<"f">>), "int", <<>>, NoType),
   Function("h", NoSym, "int", <<>>, NoType)}

ScopeVariables ==
  {Variable("V1", Sym("V1", "", <<>>), "int"),
   Variable("v2", NoSym, "S")}

ScopeContexts ==
  {NoCtxt,
   Ctxt("/usr/lib/libfoo.so", "/usr/lib/libfoo.so", "libfoo.so.1", "libfoo.so.1"),
   Ctxt("/usr/lib/libfoo.so", "/usr/lib/libbar.so", "libfoo.so.1", "libbar.so.1"),
   Ctxt("/usr/lib/libbaz.so", "/usr/lib/libbar.so", "", "libbar.so.1"),
   Ctxt("/usr/lib/libbaz.so", "/usr/lib/libbaz.so", "", "")}

InitScope ==
  /\ SccIdle
  /\ ParserIdle
  /\ type_is_private = FALSE
  /\ diff = NoNode
  /\ result = Idle
  /\ suppr \in RulesOf(ScopeSections)
  /\ ctxt \in ScopeContexts
  /\ \/ /\ suppr.kind = "type"
        /\ artifact \in ScopeTypes
        /\ change = {}
        /\ pc = "suppresses_type"
     \/ /\ suppr.kind = "function"
        /\ artifact \in ScopeFunctions
        /\ change \in {FUNCTION_SUBTYPE_CHANGE_KIND, ADDED_FUNCTION_CHANGE_KIND}
        /\ pc = "suppresses_function"
     \/ /\ suppr.kind = "variable"
        /\ artifact \in ScopeVariables
        /\ change \in {VARIABLE_SUBTYPE_CHANGE_KIND, DELETED_VARIABLE_CHANGE_KIND}
        /\ pc = "suppresses_variable"

SpecScope == InitScope /\ [][NextScope]_vars

-----------------------------------------------------------------------------
(* Properties of the binaries gate *)

HasFileNamePredicate ==
  ~suppr.file_name_regex.null \/ ~suppr.file_name_not_regex.null

HasSonamePredicate ==
  ~suppr.soname_regex.null \/ ~suppr.soname_not_regex.null

\* the path matches the regex when set and not the not-regex when set
PathAccepted(path) ==
  /\ ~suppr.file_name_regex.null => regex_match(suppr.file_name_regex, path)
  /\ ~suppr.file_name_not_regex.null =>
       ~regex_match(suppr.file_name_not_regex, path)

SonameAccepted(soname) ==
  /\ ~suppr.soname_regex.null => regex_match(suppr.soname_regex, soname)
  /\ ~suppr.soname_not_regex.null =>
       ~regex_match(suppr.soname_not_regex, soname)

SomePathAccepted ==
  PathAccepted(ctxt.first_path) \/ PathAccepted(ctxt.second_path)

SomeSonameAccepted ==
  SonameAccepted(ctxt.first_soname) \/ SonameAccepted(ctxt.second_soname)

\* what the entry point returns for the same rule and artifact in context c
EntryPointOutcome(c) ==
  CASE suppr.kind = "type" -> suppresses_type_ctxt(suppr, artifact, c)
    [] suppr.kind = "function" ->
         suppresses_function(suppr, artifact, change, c)
    [] suppr.kind = "variable" ->
         suppresses_variable(suppr, artifact, change, c)

EntryPointEnded ==
  pc \in {"done", "aborted"} /\ diff = NoNode /\ suppr # NoSuppr

\* C6: a type, function or variable rule evaluated with a diff context does
\* not match when it has a file name predicate (resp. a SONAME predicate) and
\* neither binary has a path (resp. SONAME) that matches the regex when set
\* and not the not-regex when set, whatever its other predicates are; when
\* each predicate it has is passed by one of the binaries, and so when it has
\* none, the rule ends as it does without a context.
C6_BinariesGateRule ==
  (EntryPointEnded /\ ~ctxt.null) =>
    /\ (HasFileNamePredicate /\ ~SomePathAccepted) => result = Ret(FALSE)
    /\ (HasSonamePredicate /\ ~SomeSonameAccepted) => result = Ret(FALSE)
    /\ ( /\ HasFileNamePredicate => SomePathAccepted
         /\ HasSonamePredicate => SomeSonameAccepted )
       => result \in Outcomes(EntryPointOutcome(NoCtxt))

\* a rule that matches the artifact is kept from matching by the binaries
C6_Witness ==
  /\ EntryPointEnded
  /\ ~ctxt.null
  /\ HasFileNamePredicate
  /\ ~SomePathAccepted
  /\ EntryPointOutcome(NoCtxt) = Ret(TRUE)
  /\ result = Ret(FALSE)

-----------------------------------------------------------------------------
(* suppresses_diff and suppresses_file, called on rules the parser built *)

TypeSuppressesDiff ==
  /\ pc = "suppresses_diff"
  /\ suppr.kind = "type"
  /\ Return(type_suppression_suppresses_diff(suppr, diff, ctxt))

FunctionSuppressesDiff ==
  /\ pc = "suppresses_diff"
  /\ suppr.kind = "function"
  /\ Return(function_suppression_suppresses_diff(suppr, diff, ctxt))

VariableSuppressesDiff ==
  /\ pc = "suppresses_diff"
  /\ suppr.kind = "variable"
  /\ Return(variable_suppression_suppresses_diff(suppr, diff, ctxt))

FileSuppressesDiff ==
  /\ pc = "suppresses_diff"
  /\ suppr.kind = "file"
  /\ Return(file_suppression_suppresses_diff(suppr, diff))

SuppressesFile ==
  /\ pc = "suppresses_file"
  /\ Return(Ret(suppresses_file(suppr, artifact.path)))

NextDiff ==
  \/ TypeSuppressesDiff
  \/ FunctionSuppressesDiff
  \/ VariableSuppressesDiff
  \/ FileSuppressesDiff
  \/ SuppressesFile

\* the ranges a rule may carry, and the inserted data members a class diff
\* may carry
MaxRanges == 2
MaxInserted == 2

RangePool ==
  {<<"0", "16">>, <<"16", "0">>, <<"64", "96">>, <<"end", "end">>,
   <<"offset_of(zz)", "end">>, <<"offset_after(b)", "end">>,
   <<"bogus", "end">>}

RangeItem(pair) == TupleValue(<<ListValue(pair)>>)

RangeSections ==
  {Section("suppress_type",
           <<SimpleProperty("name", "S"),
             TupleProperty("has_data_members_inserted_between", its)>>) :
     its \in {[i \in 1..Len(r) |-> RangeItem(r[i])] :
                r \in SeqsUpTo(RangePool, MaxRanges) \ {<<>>}}}
  \cup
  {Section("suppress_type",
           <<SimpleProperty("name", "S"),
             SimpleProperty("has_data_member_inserted_at", at)>>) :
     at \in {"8", "end", "offset_after(a)"}}

ReachSections ==
  {Section("suppress_type", <<SimpleProperty("name", n)>> \o reach) :
     n \in {"S", "E"},
     reach \in {<<>>} \cup
               {<<SimpleProperty("accessed_through", k)>> :
                  k \in {"direct", "pointer", "reference",
                         "reference-or-pointer"}}}

EnumSections ==
  {Section("suppress_type",
           <<SimpleProperty("type_kind", "enum")>> \o names) :
     names \in {<<>>,
                <<SimpleProperty("changed_enumerators", "e1")>>,
                <<ListProperty("changed_enumerators", <<"e1", "e2">>)>>,
                <<ListProperty("changed_enumerators", <<"e2", "e3">>)>>}}

OtherSections ==
  {Section("suppress_function", <<SimpleProperty("name", "S::m")>>),
   Section("suppress_function", <<SimpleProperty("name_not_regexp", "^g")>>),
   Section("suppress_variable", <<SimpleProperty("name", "V1")>>),
   Section("suppress_file", <<SimpleProperty("file_name_regexp", "foo")>>),
   Section("suppress_file", <<SimpleProperty("file_name_not_regexp", "foo")>>),
   Section("suppress_file",
           <<SimpleProperty("file_name_regexp", "foo"),
             SimpleProperty("file_name_not_regexp", "foo")>>)}

DiffSections == RangeSections \cup ReachSections \cup EnumSections
                  \cup OtherSections

\* class S { a at 0; static s; b at 32 }, 64 bits wide
ClassS ==
  [Type("class", "S", "include/foo.h") EXCEPT
     !.size_in_bits = 64,
     !.data_members = <<DataMember("a", 0, TRUE, 8),
                        DataMember("s", 0, FALSE, 32),
                        DataMember("b", 32, TRUE, 32)>>]

InsertedPool ==
  {DataMember("x", 8, TRUE, 8), DataMember("y", 64, TRUE, 32),
   DataMember("z", 96, TRUE, 32)}

\* the second class holds every inserted member
HoldsAll(size, inserted) ==
  \A m \in inserted : m.offset + m.size_in_bits <= size

ClassDiff(inserted, deleted, size) ==
  [Diff("class_diff", ClassS, [ClassS EXCEPT !.size_in_bits = size]) EXCEPT
     !.inserted_data_members = inserted,
     !.deleted_data_members = deleted]

ClassDiffs ==
  {ClassDiff(inserted, deleted, size) :
     inserted \in {I \in SUBSET InsertedPool : Cardinality(I) <= MaxInserted},
     deleted \in {{}, {"b"}},
     size \in {32, 64, 128}}

EnumE == [Type("enum", "E", "include/foo.h") EXCEPT !.size_in_bits = 32]

EnumDiffs ==
  {[Diff("enum_diff", EnumE, [EnumE EXCEPT !.size_in_bits = size]) EXCEPT
      !.changed_enumerators = changed,
      !.deleted_enumerators = deleted] :
     changed \in SUBSET {"e1", "e2"},
     deleted \in {{}, {"e0"}},
     size \in {32, 64}}

DistinctDiff == Diff("distinct_diff", ClassS, EnumE)

QualifiedDiff(underlying) ==
  [Diff("qualified_type_diff", Type("qualified", "const", ""),
        Type("qualified", "const", ""))
     EXCEPT !.underlying = underlying]

PointerDiff(underlying) ==
  [Diff("pointer_diff", Type("pointer", "S*", ""), Type("pointer", "S*", ""))
     EXCEPT !.underlying = underlying]

ReferenceDiff(underlying) ==
  [Diff("reference_diff", Type("reference", "S&", ""),
        Type("reference", "S&", ""))
     EXCEPT !.underlying = underlying]

TypedefDiff(underlying) ==
  [Diff("typedef_diff",
        [Type("typedef", "TS", "include/foo.h") EXCEPT
           !.underlying = underlying.first],
        [Type("typedef", "TS", "include/foo.h") EXCEPT
           !.underlying = underlying.second])
     EXCEPT !.underlying = underlying]

Pointees ==
  {ClassDiff({DataMember("y", 64, TRUE, 32)}, {}, 128),
   QualifiedDiff(ClassDiff({}, {}, 64)),
   QualifiedDiff(DistinctDiff),
   DistinctDiff}

MethodM == Function("S::m", Sym("_ZN1S1mEv", "", <<>>), "void", <<>>, ClassS)

FunctionDiff(virtual) ==
  [Diff("function_decl_diff", MethodM, MethodM) EXCEPT
     !.has_virtual_mem_fn_change = virtual]

VarDiff ==
  Diff("var_diff", Variable("V1", NoSym, "int"), Variable("V1", NoSym, "long"))

DiffNodes ==
  ClassDiffs \cup EnumDiffs
    \cup {PointerDiff(u) : u \in Pointees}
    \cup {ReferenceDiff(u) : u \in Pointees}
    \cup {TypedefDiff(ClassDiff({DataMember("x", 8, TRUE, 8)}, {}, 64)),
          QualifiedDiff(DistinctDiff),
          FunctionDiff(TRUE), FunctionDiff(FALSE), VarDiff, DistinctDiff}

FilePaths == {"", "/usr/lib/libfoo.so", "/usr/lib/libbar.so"}

InitDiff ==
  /\ SccIdle
  /\ ParserIdle
  /\ type_is_private = FALSE
  /\ result = Idle
  /\ change = {}
  /\ suppr \in RulesOf(DiffSections)
  /\ ctxt = Ctxt("/usr/lib/libfoo.so", "/usr/lib/libfoo.so",
                 "libfoo.so.1", "libfoo.so.1")
  /\ \/ /\ pc = "suppresses_diff"
        /\ diff \in {d \in DiffNodes :
                       d.kind = "class_diff" =>
                         HoldsAll(d.second.size_in_bits,
                                  d.inserted_data_members)}
        /\ artifact = NoType
     \/ /\ pc = "suppresses_file"
        /\ suppr.kind = "file"
        /\ diff = NoNode
        /\ artifact \in {[kind |-> "file", path |-> p] : p \in FilePaths}

SpecDiff == InitDiff /\ [][NextDiff]_vars

-----------------------------------------------------------------------------
(* Properties of type_suppression::suppresses_diff *)

\* suppresses_diff of a type rule has ended
TypeDiffCallEnded ==
  pc \in {"done", "aborted"} /\ suppr.kind = "type" /\ diff # NoNode

\* the rule carries accessed_through = pointer, reference or
\* reference-or-pointer
ReachIsIndirect ==
  /\ suppr.consider_reach_kind
  /\ suppr.reach_kind \in {"pointer", "reference", "reference-or-pointer"}

\* the diff has the shape the reach kind of the rule asks for
DiffHasReachShape ==
  /\ suppr.reach_kind = "pointer" => diff.kind = "pointer_diff"
  /\ suppr.reach_kind = "reference" => diff.kind = "reference_diff"
  /\ diff.kind \in {"pointer_diff", "reference_diff"}

\* the name, kind and location predicates of the rule match one of the two
\* subjects of the diff
PredicatesMatchSubjects ==
  either_type_suppressed(suppr, diff.first, diff.second, ctxt) = Ret(TRUE)

\* C7: with accessed_through = pointer (resp. reference, reference-or-pointer)
\* suppresses_diff returns true only for a pointer diff (resp. reference
\* diff, either of the two) whose underlying diff is a type diff; any other
\* shape, a function diff with a virtual member function change included,
\* returns false.
C7_ReachGateComesFirst ==
  (TypeDiffCallEnded /\ ReachIsIndirect /\ result = Ret(TRUE)) =>
    /\ DiffHasReachShape
    /\ is_type_diff(diff.underlying) # NoNode

\* the two shapes the claim names: reference-or-pointer on a pointer or
\* reference diff whose underlying diff is not a type diff, and any indirect
\* reach kind when peeling the qualified diffs leaves no type diff
UnderlyingIsNoTypeDiff ==
  /\ suppr.consider_reach_kind
  /\ suppr.reach_kind = "reference-or-pointer"
  /\ diff.kind \in {"pointer_diff", "reference_diff"}
  /\ is_type_diff(diff.underlying) = NoNode

PeelingLeavesNoTypeDiff ==
  /\ ReachIsIndirect
  /\ DiffHasReachShape
  /\ is_type_diff(diff.underlying) # NoNode
  /\ is_type_diff(peel_qualified_diff(diff.underlying)) = NoNode

\* C8: suppresses_diff and suppresses_file are total: every call returns true
\* or false, nothing aborts or is undefined; the two shapes above are a plain
\* non-match.
C8_TotalOnEveryInput ==
  (pc \in {"done", "aborted"} /\ (diff # NoNode \/ artifact.kind = "file")) =>
    /\ pc = "done"
    /\ result \in {Ret(TRUE), Ret(FALSE)}
    /\ (suppr.kind = "type" /\ diff # NoNode
        /\ (UnderlyingIsNoTypeDiff \/ PeelingLeavesNoTypeDiff))
       => result = Ret(FALSE)

\* no bound of the rule is a null expression
BoundsAreExpressions ==
  \A i \in 1..Len(suppr.insertion_ranges) :
    /\ eval(suppr.insertion_ranges[i].begin, diff.first).status # "undefined"
    /\ eval(suppr.insertion_ranges[i].end, diff.first).status # "undefined"

\* both bounds evaluate, and they are 'end' with o after the last member of
\* the first class, or o lies between them
BoundsAdmit(range_begin, range_end, o) ==
  /\ range_begin.status = "value"
  /\ range_end.status = "value"
  /\ \/ /\ boundary_value_is_end(range_begin.value)
        /\ boundary_value_is_end(range_end.value)
        /\ o > get_data_member_offset(get_last_data_member(diff.first))
     \/ range_begin.value <= o /\ o <= range_end.value

SomeRangeAdmits(o) ==
  \E i \in 1..Len(suppr.insertion_ranges) :
    BoundsAdmit(eval(suppr.insertion_ranges[i].begin, diff.first),
                eval(suppr.insertion_ranges[i].end, diff.first), o)

InsertionRangesApply ==
  /\ TypeDiffCallEnded
  /\ diff.kind = "class_diff"
  /\ ~ReachIsIndirect
  /\ PredicatesMatchSubjects
  /\ diff.deleted_data_members = {}
  /\ diff.first.size_in_bits <= diff.second.size_in_bits
  /\ suppr.insertion_ranges # <<>>
  /\ BoundsAreExpressions

\* C9: on a class diff whose subjects the rule matches, with no deleted
\* member, a size that does not shrink and a non-empty list of ranges, the
\* diff is suppressed iff every inserted member is admitted by some range of
\* the list, wherever that range stands in the list and whether or not
\* another range has a bound that fails to evaluate.
C9_SomeRangeAdmitsEveryMember ==
  InsertionRangesApply =>
    result = Ret(\A m \in diff.inserted_data_members :
                   SomeRangeAdmits(get_data_member_offset(m)))

ChangedEnumeratorsApply ==
  /\ TypeDiffCallEnded
  /\ diff.kind = "enum_diff"
  /\ ~ReachIsIndirect
  /\ PredicatesMatchSubjects
  /\ diff.deleted_enumerators = {}
  /\ diff.first.size_in_bits = diff.second.size_in_bits
  /\ diff.changed_enumerators # {}

\* C10: on an enum diff whose subjects the rule matches, with no deleted
\* enumerator, the same size on both sides and some changed enumerators, the
\* diff is suppressed iff the name of every changed enumerator is in
\* changed_enumerator_names.
C10_EveryChangedEnumeratorListed ==
  ChangedEnumeratorsApply =>
    result = Ret(diff.changed_enumerators
                   \subseteq Range(suppr.changed_enumerator_names))

\* one changed enumerator is listed, another is not: the diff is kept
C10_Witness ==
  /\ ChangedEnumeratorsApply
  /\ diff.changed_enumerators \cap Range(suppr.changed_enumerator_names) # {}
  /\ ~(diff.changed_enumerators
         \subseteq Range(suppr.changed_enumerator_names))
  /\ result = Ret(FALSE)

-----------------------------------------------------------------------------
(* Function suppressions: matching an ELF symbol, and the name filters *)

\* an ELF symbol handed to suppresses_function_symbol
SymbolArtifact(sym, is_fn) ==
  [kind |-> "symbol", symbol |-> sym, is_function |-> is_fn]

\* a name handed to suppression_matches_function_name ("name") or to
\* suppression_matches_function_sym_name ("sym_name")
NameArtifact(knd, n) == [kind |-> knd, name |-> n]

\* the symbol name part, but trying the rule's function name first
symbol_query_name_matches_by_decl_name(s, sym_name) ==
  IF s.name # "" THEN s.name = sym_name
  ELSE IF s.symbol_name # "" THEN sym_name = s.symbol_name
  ELSE IF ~s.symbol_name_regex.null
    THEN regex_match(s.symbol_name_regex, sym_name)
  ELSE TRUE

\* the symbol name part
symbol_query_name_matches(s, sym_name) ==
  IF s.symbol_name # "" THEN sym_name = s.symbol_name
  ELSE IF ~s.symbol_name_regex.null
    THEN regex_match(s.symbol_name_regex, sym_name)
  ELSE TRUE

\* the symbol version part
symbol_query_version_matches(s, sym_version) ==
  IF s.symbol_version # "" THEN sym_version = s.symbol_version
  ELSE IF ~s.symbol_version_regex.null
    THEN regex_match(s.symbol_version_regex, sym_version)
  ELSE TRUE

\* 'no_symbol_name && no_symbol_version'
no_symbol_predicate(s) ==
  /\ s.symbol_name = "" /\ s.symbol_name_regex.null
  /\ s.symbol_version = "" /\ s.symbol_version_regex.null

\* function_suppression::suppresses_function_symbol(sym, k, ctxt)
suppresses_function_symbol(s, sym, is_fn, kind, c) ==
  IF sym.null THEN Ret(FALSE)
  ELSE IF s.change_kind \cap kind = {} THEN Ret(FALSE)
  ELSE IF ~is_fn THEN Ret(FALSE)
  ELSE IF /\ kind \cap ADDED_FUNCTION_CHANGE_KIND = {}
          /\ kind \cap DELETED_FUNCTION_CHANGE_KIND = {}
    THEN Aborted
  ELSE IF ~binaries_match(s, c) THEN Ret(FALSE)
  ELSE IF ~symbol_query_name_matches(s, sym.name) THEN Ret(FALSE)
  ELSE IF ~symbol_query_version_matches(s, sym.version) THEN Ret(FALSE)
  ELSE Ret(~no_symbol_predicate(s))

suppression_matches_function_name(s, fn_name) ==
  IF ~s.name_regex.null THEN regex_match(s.name_regex, fn_name)
  ELSE IF ~s.name_not_regex.null THEN ~regex_match(s.name_not_regex, fn_name)
  ELSE IF s.name = "" THEN FALSE
  ELSE s.name = fn_name

suppression_matches_function_sym_name(s, fn_linkage_name) ==
  IF ~s.symbol_name_regex.null
    THEN regex_match(s.symbol_name_regex, fn_linkage_name)
  ELSE IF ~s.symbol_name_not_regex.null
    THEN ~regex_match(s.symbol_name_not_regex, fn_linkage_name)
  ELSE IF s.symbol_name = "" THEN FALSE
  ELSE s.symbol_name = fn_linkage_name

SuppressesFunctionSymbol ==
  /\ pc = "suppresses_function_symbol"
  /\ Return(suppresses_function_symbol(suppr, artifact.symbol,
                                       artifact.is_function, change, ctxt))

SuppressionMatchesFunctionName ==
  /\ pc = "suppression_matches_function_name"
  /\ Return(Ret(suppression_matches_function_name(suppr, artifact.name)))

SuppressionMatchesFunctionSymName ==
  /\ pc = "suppression_matches_function_sym_name"
  /\ Return(Ret(suppression_matches_function_sym_name(suppr, artifact.name)))

NextFunction ==
  \/ SuppressesFunction
  \/ SuppressesFunctionSymbol
  \/ SuppressionMatchesFunctionName
  \/ SuppressionMatchesFunctionSymName

FunctionProps ==
  {SimpleProperty("name", "f"),
   SimpleProperty("name", "g"),
   SimpleProperty("name_regexp", "^f"),
   SimpleProperty("name_not_regexp", "^g"),
   SimpleProperty("name_not_regexp", "^f"),
   SimpleProperty("symbol_name", "f"),
   SimpleProperty("symbol_name_regexp", "^f"),
   SimpleProperty("symbol_name_not_regexp", "^g"),
   SimpleProperty("allow_other_aliases", "no"),
   SimpleProperty("drop", "yes")}

FunctionSections ==
  {Section("suppress_function", ps) : ps \in SeqsUpTo(FunctionProps, MaxProps)}

AliasedSymbols ==
  {Sym("f", "", <<>>), Sym("f", "", <<"f2">>), Sym("f", "", <<"g">>),
   Sym("g", "", <<"f">>), Sym("f2", "", <<"f", "g">>)}

AliasedFunctions ==
  {Function(sym.name, sym, "int", <<>>, NoType) : sym \in AliasedSymbols}
    \cup {Function("f", NoSym, "int", <<>>, NoType),
          Function("h", Sym("f", "", <<"f2">>), "int", <<>>, NoType)}

FunctionNames == {"f", "f2", "g", "h"}

InitFunction ==
  /\ SccIdle
  /\ ParserIdle
  /\ type_is_private = FALSE
  /\ diff = NoNode
  /\ result = Idle
  /\ ctxt = NoCtxt
  /\ suppr \in RulesOf(FunctionSections)
  /\ \/ /\ pc = "suppresses_function"
        /\ artifact \in AliasedFunctions
        /\ change = FUNCTION_SUBTYPE_CHANGE_KIND
     \/ /\ pc = "suppresses_function_symbol"
        /\ artifact \in {SymbolArtifact(sym, is_fn) :
                           sym \in AliasedSymbols \cup {NoSym},
                           is_fn \in BOOLEAN}
        /\ change \in {ADDED_FUNCTION_CHANGE_KIND,
                       DELETED_FUNCTION_CHANGE_KIND}
     \/ /\ pc = "suppression_matches_function_name"
        /\ artifact \in {NameArtifact("name", n) : n \in FunctionNames}
        /\ change = {}
     \/ /\ pc = "suppression_matches_function_sym_name"
        /\ artifact \in {NameArtifact("sym_name", n) : n \in FunctionNames}
        /\ change = {}

SpecFunction == InitFunction /\ [][NextFunction]_vars

-----------------------------------------------------------------------------
(* Properties of function rules *)

\* suppresses_function has ended on a function whose name is also an alias
\* name of its symbol, under a rule with allow_other_aliases
AliasedFunctionCallEnded ==
  /\ pc \in {"done", "aborted"}
  /\ artifact.kind = "function"
  /\ suppr.kind = "function"
  /\ suppr.allow_other_aliases
  /\ ~artifact.symbol.null
  /\ get_alias_from_name(artifact.symbol, artifact.qualified_name)

SomeAliasFailsNameRegex ==
  /\ ~suppr.name_regex.null
  /\ \E a \in Range(artifact.symbol.aliases) :
       ~regex_match(suppr.name_regex, a)

SomeAliasFailsNameNotRegex ==
  /\ ~suppr.name_not_regex.null
  /\ \E a \in Range(artifact.symbol.aliases) :
       regex_match(suppr.name_not_regex, a)

\* C11: with allow_other_aliases and a function whose name is an alias name
\* of its symbol, one alias that does not match name_regexp, or that matches
\* name_not_regexp, makes suppresses_function return false.
C11_EveryAliasPassesNamePredicate ==
  (AliasedFunctionCallEnded
     /\ (SomeAliasFailsNameRegex \/ SomeAliasFailsNameNotRegex))
    => result = Ret(FALSE)

\* suppresses_function_symbol has ended on a function symbol, under a rule
\* with symbol_name_regexp and allow_other_aliases
SymbolQueryEnded ==
  /\ pc \in {"done", "aborted"}
  /\ artifact.kind = "symbol"
  /\ ~artifact.symbol.null
  /\ artifact.is_function
  /\ suppr.kind = "function"
  /\ ~suppr.symbol_name_regex.null
  /\ suppr.allow_other_aliases

\* C12: a symbol-only query under symbol_name_regexp with allow_other_aliases
\* suppresses the symbol only if the regex matches the name of the symbol
\* and the name of every alias of it.
C12_SymbolQueryChecksEveryAlias ==
  (SymbolQueryEnded /\ result = Ret(TRUE)) =>
    /\ regex_match(suppr.symbol_name_regex, artifact.symbol.name)
    /\ \A a \in Range(artifact.symbol.aliases) :
         regex_match(suppr.symbol_name_regex, a)

-----------------------------------------------------------------------------
(* The filters the readers consult (abg-suppression-priv.h), and           *)
(* file_is_suppressed                                                      *)

suppression_matches_variable_name(s, var_name) ==
  IF ~s.name_regex.null THEN regex_match(s.name_regex, var_name)
  ELSE IF ~s.name_not_regex.null THEN ~regex_match(s.name_not_regex, var_name)
  ELSE IF s.name = "" THEN FALSE
  ELSE s.name = var_name

suppression_matches_variable_sym_name(s, var_linkage_name) ==
  IF ~s.symbol_name_regex.null
    THEN regex_match(s.symbol_name_regex, var_linkage_name)
  ELSE IF ~s.symbol_name_not_regex.null
    THEN ~regex_match(s.symbol_name_not_regex, var_linkage_name)
  ELSE IF s.symbol_name = "" THEN FALSE
  ELSE s.symbol_name = var_linkage_name

suppression_matches_type_name_or_location(s, type_name, type_location) ==
  /\ suppression_matches_type_name(s, type_name)
  /\ suppression_matches_location(s, type_location)

\* 'if (require_drop_property && !(*i)->get_drops_artifact_from_ir())
\*    continue;' does not skip the rule
rule_is_consulted(s, require_drop_property) ==
  ~(require_drop_property /\ ~s.drops_artifact)

\* the body of the loop of function_is_suppressed returns true on rule s
function_rule_filters(s, fn_name, fn_linkage_name, require_drop_property) ==
  /\ s.kind = "function"
  /\ rule_is_consulted(s, require_drop_property)
  /\ \/ fn_name # "" /\ suppression_matches_function_name(s, fn_name)
     \/ /\ fn_linkage_name # ""
        /\ suppression_matches_function_sym_name(s, fn_linkage_name)

function_is_suppressed(supprs, fn_name, fn_linkage_name, require_drop_property) ==
  \E i \in 1..Len(supprs) :
    function_rule_filters(supprs[i], fn_name, fn_linkage_name,
                          require_drop_property)

\* the body of the loop of variable_is_suppressed returns true on rule s
variable_rule_filters(s, var_name, var_linkage_name, require_drop_property) ==
  /\ s.kind = "variable"
  /\ rule_is_consulted(s, require_drop_property)
  /\ \/ var_name # "" /\ suppression_matches_variable_name(s, var_name)
     \/ /\ var_linkage_name # ""
        /\ suppression_matches_variable_sym_name(s, var_linkage_name)

variable_is_suppressed(supprs, var_name, var_linkage_name, require_drop_property) ==
  \E i \in 1..Len(supprs) :
    variable_rule_filters(supprs[i], var_name, var_linkage_name,
                          require_drop_property)

\* the body of the loop of type_is_suppressed returns true on rule s
type_rule_filters(s, type_name, type_location, require_drop_property) ==
  /\ s.kind = "type"
  /\ rule_is_consulted(s, require_drop_property)
  /\ suppression_matches_type_name_or_location(s, type_name, type_location)

\* positions of the rules on which the loop of type_is_suppressed returns
type_rules_filtering(supprs, type_name, type_location, require_drop_property) ==
  {i \in 1..Len(supprs) :
     type_rule_filters(supprs[i], type_name, type_location,
                       require_drop_property)}

type_is_suppressed(supprs, type_name, type_location, require_drop_property) ==
  type_rules_filtering(supprs, type_name, type_location,
                       require_drop_property) # {}

\* the out parameter type_is_private of type_is_suppressed
type_is_private_after(supprs, type_name, type_location, require_drop_property) ==
  /\ type_is_suppressed(supprs, type_name, type_location,
                        require_drop_property)
  /\ is_private_type_suppr_spec(
       supprs[least(type_rules_filtering(supprs, type_name, type_location,
                                         require_drop_property))])

is_elf_symbol_suppressed(supprs, sym_name, sym_type) ==
  IF sym_type = "func" THEN function_is_suppressed(supprs, "", sym_name, FALSE)
  ELSE IF sym_type = "object"
    THEN variable_is_suppressed(supprs, "", sym_name, FALSE)
  ELSE FALSE

\* positions of the file rules that suppress file_path
file_rules_suppressing(file_path, sprs) ==
  {i \in 1..Len(sprs) :
     sprs[i].kind = "file" /\ suppresses_file(sprs[i], file_path)}

\* the rule file_is_suppressed returns, or a null pointer
file_is_suppressed(file_path, sprs) ==
  IF file_rules_suppressing(file_path, sprs) = {} THEN NoSuppr
  ELSE sprs[least(file_rules_suppressing(file_path, sprs))]

\* what the filters are asked about
Candidate(knd, n, linkage, location, require) ==
  [kind |-> knd, name |-> n, linkage_name |-> linkage, loc |-> location,
   require_drop_property |-> require]

ElfSymbol(n, sym_type) == [kind |-> "elf_symbol", name |-> n, type |-> sym_type]

\* a filter returns b
FilterReturns(b) ==
  /\ result' = Ret(b)
  /\ pc' = "done"
  /\ UNCHANGED <<parse_vars, suppr, diff, artifact, ctxt, change, scc_vars>>

FunctionIsSuppressed ==
  /\ pc = "function_is_suppressed"
  /\ FilterReturns(function_is_suppressed(suppressions, artifact.name,
                                          artifact.linkage_name,
                                          artifact.require_drop_property))
  /\ UNCHANGED type_is_private

VariableIsSuppressed ==
  /\ pc = "variable_is_suppressed"
  /\ FilterReturns(variable_is_suppressed(suppressions, artifact.name,
                                          artifact.linkage_name,
                                          artifact.require_drop_property))
  /\ UNCHANGED type_is_private

TypeIsSuppressed ==
  /\ pc = "type_is_suppressed"
  /\ FilterReturns(type_is_suppressed(suppressions, artifact.name,
                                      artifact.loc,
                                      artifact.require_drop_property))
  /\ type_is_private' =
       type_is_private_after(suppressions, artifact.name, artifact.loc,
                             artifact.require_drop_property)

IsElfSymbolSuppressed ==
  /\ pc = "is_elf_symbol_suppressed"
  /\ FilterReturns(is_elf_symbol_suppressed(suppressions, artifact.name,
                                            artifact.type))
  /\ UNCHANGED type_is_private

FileIsSuppressed ==
  /\ pc = "file_is_suppressed"
  /\ suppr' = file_is_suppressed(artifact.path, suppressions)
  /\ result' = Ret(suppr' # NoSuppr)
  /\ pc' = "done"
  /\ UNCHANGED <<parse_vars, diff, artifact, ctxt, change, type_is_private,
               scc_vars>>

NextFilter ==
  \/ FunctionIsSuppressed
  \/ VariableIsSuppressed
  \/ TypeIsSuppressed
  \/ IsElfSymbolSuppressed
  \/ FileIsSuppressed

MaxRules == 2

FilterProps ==
  {<<"suppress_function", <<SimpleProperty("name", "f")>> >>,
   <<"suppress_function", <<SimpleProperty("symbol_name_regexp", "^f")>> >>,
   <<"suppress_variable", <<SimpleProperty("name", "V1")>> >>,
   <<"suppress_variable", <<SimpleProperty("symbol_name", "V1")>> >>,
   <<"suppress_type", <<SimpleProperty("name", "S")>> >>,
   <<"suppress_type", <<SimpleProperty("name_regexp", "^T"),
                        SimpleProperty("source_location_not_in", "foo.h")>> >>,
   <<"suppress_file", <<SimpleProperty("file_name_regexp", "foo")>> >>,
   <<"suppress_file", <<SimpleProperty("file_name_not_regexp", "bar")>> >>,
   <<"suppress_file", <<SimpleProperty("soname_regexp", "foo")>> >>}

FilterSections ==
  {Section(p[1], p[2] \o d) :
     p \in FilterProps, d \in {<<>>, <<SimpleProperty("drop", "yes")>>}}

\* the rule the tools make from a list of public headers
PrivateTypesRule ==
  [type_suppression_default EXCEPT
     !.is_artificial = TRUE,
     !.drops_artifact = TRUE,
     !.label = get_private_types_suppr_spec_label,
     !.type_name_regex = regex_compile(".*"),
     !.source_locations_to_keep = {"foo.h"}]

FilterRules == RulesOf(FilterSections) \cup {PrivateTypesRule}

FilterCandidates(operation) ==
  CASE operation = "function_is_suppressed" ->
         {Candidate("function", n, l, "", r) :
            n \in {"", "f", "g"}, l \in {"", "f"}, r \in BOOLEAN}
    [] operation = "variable_is_suppressed" ->
         {Candidate("variable", n, l, "", r) :
            n \in {"", "V1"}, l \in {"", "V1", "f"}, r \in BOOLEAN}
    [] operation = "type_is_suppressed" ->
         {Candidate("type", n, "", l, r) :
            n \in {"S", "T"}, l \in {"", "include/foo.h", "include/bar.h"},
            r \in BOOLEAN}
    [] operation = "is_elf_symbol_suppressed" ->
         {ElfSymbol(n, t) : n \in {"f", "V1"},
                            t \in {"func", "object", "notype"}}
    [] operation = "file_is_suppressed" ->
         {[kind |-> "file", path |-> p] : p \in FilePaths}

FilterOperations ==
  {"function_is_suppressed", "variable_is_suppressed", "type_is_suppressed",
   "is_elf_symbol_suppressed", "file_is_suppressed"}

InitFilter ==
  /\ SccIdle
  /\ config = <<>>
  /\ suppressions0 \in SeqsUpTo(FilterRules, MaxRules)
  /\ suppressions = suppressions0
  /\ success = TRUE
  /\ idx = 1
  /\ suppr = NoSuppr
  /\ diff = NoNode
  /\ ctxt = NoCtxt
  /\ change = {}
  /\ type_is_private = FALSE
  /\ result = Idle
  /\ pc \in FilterOperations
  /\ artifact \in FilterCandidates(pc)

SpecFilter == InitFilter /\ [][NextFilter]_vars

-----------------------------------------------------------------------------
(* Properties of the filters *)

\* rule s, which carries the drop directive, matches the candidate
DropRuleMatchesCandidate(s) ==
  /\ s.drops_artifact
  /\ CASE artifact.kind = "function" ->
            function_rule_filters(s, artifact.name, artifact.linkage_name,
                                  TRUE)
       [] artifact.kind = "variable" ->
            variable_rule_filters(s, artifact.name, artifact.linkage_name,
                                  TRUE)
       [] artifact.kind = "type" ->
            type_rule_filters(s, artifact.name, artifact.loc, TRUE)
       [] artifact.kind = "elf_symbol" ->
            \/ /\ artifact.type = "func"
               /\ function_rule_filters(s, "", artifact.name, TRUE)
            \/ /\ artifact.type = "object"
               /\ variable_rule_filters(s, "", artifact.name, TRUE)

\* C13: function_is_suppressed, variable_is_suppressed, type_is_suppressed
\* and is_elf_symbol_suppressed return true only if some rule of the set
\* that carries the drop directive matches the candidate.
C13_OnlyDropRulesFilter ==
  (/\ pc = "done"
   /\ artifact.kind \in {"function", "variable", "type", "elf_symbol"}
   /\ suppr = NoSuppr
   /\ result = Ret(TRUE))
    => \E i \in 1..Len(suppressions) : DropRuleMatchesCandidate(suppressions[i])

-----------------------------------------------------------------------------
(* The name filters against the name predicates of suppresses_function *)

\* the "name", "name_regexp" and "name_not_regexp" blocks of
\* suppresses_function let fn through
NamePredicatesAccept(s, fn) ==
  /\ function_name_matches(s, fn)
  /\ function_name_regex_matches(s, fn)
  /\ function_name_not_regex_matches(s, fn) = Ret(TRUE)

\* C14: when suppression_matches_function_name(R, n) is true, the name
\* predicates of suppresses_function accept a function called n that has no
\* aliases; when suppression_matches_function_sym_name(R, n) is true, its
\* symbol name predicates accept a function whose symbol is called n.
C14_FilterAgreesWithMatcher ==
  (pc = "done" /\ suppr.kind = "function" /\ result = Ret(TRUE)) =>
    /\ artifact.kind = "name" =>
         NamePredicatesAccept(suppr, Function(artifact.name, NoSym, "int",
                                              <<>>, NoType))
    /\ artifact.kind = "sym_name" =>
         function_symbol_name_matches(
           suppr, Function("h", Sym(artifact.name, "", <<>>), "int", <<>>,
                           NoType))

-----------------------------------------------------------------------------
(* Properties of the location check *)

\* suppresses_type(type, ctxt) has ended on a type that has a location
LocatedTypeCallEnded ==
  /\ pc \in {"done", "aborted"}
  /\ diff = NoNode
  /\ suppr.kind = "type"
  /\ artifact.kind \in {"class", "enum"}
  /\ get_location(artifact) # ""

\* the location of the type is one the rule keeps
LocationIsKept ==
  \/ /\ ~suppr.source_location_to_keep_regex.null
     /\ regex_match(suppr.source_location_to_keep_regex,
                    get_location(artifact))
  \/ get_location(artifact) \in suppr.source_locations_to_keep
  \/ base_name(get_location(artifact)) \in suppr.source_locations_to_keep

\* the rule without its location predicates
WithoutLocationPredicates(s) ==
  [s EXCEPT !.source_locations_to_keep = {},
            !.source_location_to_keep_regex = NoRegex]

\* C15: a type rule does not match a type that has a source location when
\* source_location_to_keep_regex matches the path of the location, or when
\* the path or its base name is in source_locations_to_keep; otherwise the
\* location predicates do not change what the rule answers.
C15_KeptLocationsAreNotMatched ==
  LocatedTypeCallEnded =>
    IF LocationIsKept THEN result = Ret(FALSE)
    ELSE result = suppresses_type_ctxt(WithoutLocationPredicates(suppr),
                                       artifact, ctxt)

\* source_location_not_in names the base name of the file of the type, and
\* nothing else keeps the rule from matching
C15_Witness ==
  /\ LocatedTypeCallEnded
  /\ base_name(get_location(artifact)) \in suppr.source_locations_to_keep
  /\ get_location(artifact) \notin suppr.source_locations_to_keep
  /\ suppresses_type_ctxt(WithoutLocationPredicates(suppr), artifact, ctxt)
       = Ret(TRUE)
  /\ result = Ret(FALSE)

-----------------------------------------------------------------------------
(* File rules: suppresses_diff, suppresses_file and file_is_suppressed      *)
(* called on file rules the parser built                                    *)

FileProps ==
  {<<SimpleProperty("file_name_regexp", "foo")>>,
   <<SimpleProperty("file_name_regexp", "^libfoo")>>,
   <<SimpleProperty("file_name_not_regexp", "bar")>>,
   <<SimpleProperty("file_name_regexp", "foo"),
     SimpleProperty("file_name_not_regexp", "^libfoo")>>,
   <<SimpleProperty("file_name_regexp", "("),
     SimpleProperty("soname_not_regexp", "bar")>>,
   <<SimpleProperty("soname_regexp", "^libfoo")>>,
   <<SimpleProperty("soname_regexp", "^libfoo"),
     SimpleProperty("label", "foo")>>}

FileSections == {Section("suppress_file", ps) : ps \in FileProps}

FileRules ==
  RulesOf(FileSections
            \cup {Section("suppress_function",
                          <<SimpleProperty("name", "f")>>)})

LoadedPaths ==
  FilePaths \cup {"/usr/lib/libfoo.so.3", "/usr/lib/libbar.so.1"}

FileNodes ==
  EnumDiffs \cup {FunctionDiff(TRUE), VarDiff, DistinctDiff,
                  QualifiedDiff(DistinctDiff)}

InitFile ==
  /\ SccIdle
  /\ config = <<>>
  /\ success = TRUE
  /\ idx = 1
  /\ ctxt = NoCtxt
  /\ change = {}
  /\ type_is_private = FALSE
  /\ result = Idle
  /\ \/ /\ pc = "suppresses_diff"
        /\ suppressions0 = <<>>
        /\ suppr \in {s \in FileRules : s.kind = "file"}
        /\ diff \in FileNodes
        /\ artifact = NoType
     \/ /\ pc = "suppresses_file"
        /\ suppressions0 = <<>>
        /\ suppr \in {s \in FileRules : s.kind = "file"}
        /\ diff = NoNode
        /\ artifact \in {[kind |-> "file", path |-> p] : p \in LoadedPaths}
     \/ /\ pc = "file_is_suppressed"
        /\ suppressions0 \in SeqsUpTo(FileRules, MaxRules)
        /\ suppr = NoSuppr
        /\ diff = NoNode
        /\ artifact \in {[kind |-> "path", path |-> p] : p \in LoadedPaths}
  /\ suppressions = suppressions0

NextFile ==
  \/ FileSuppressesDiff
  \/ SuppressesFile
  \/ FileIsSuppressed

SpecFile == InitFile /\ [][NextFile]_vars

-----------------------------------------------------------------------------
(* Properties of the file rules *)

FileSuppressesDiffEnded ==
  /\ pc \in {"done", "aborted"}
  /\ suppr.kind = "file"
  /\ diff # NoNode

SuppressesFileEnded ==
  /\ pc \in {"done", "aborted"}
  /\ artifact.kind = "file"
  /\ suppr.kind = "file"

FileIsSuppressedEnded ==
  /\ pc \in {"done", "aborted"}
  /\ artifact.kind = "path"

\* the rule has a soname_regexp and no other predicate
OnlySonameRegex(s) ==
  /\ ~s.soname_regex.null
  /\ s.soname_not_regex.null
  /\ s.file_name_regex.null
  /\ s.file_name_not_regex.null

\* C16: a suppress_file rule whose only predicate is soname_regexp suppresses
\* exactly the files whose base name matches that regex: suppresses_file
\* returns true on /usr/lib/libfoo.so.3 and false on /usr/lib/libbar.so.1
\* when the regex matches libfoo.so.*
C16_SonameOnlyRuleSuppressesByBaseName ==
  (SuppressesFileEnded /\ OnlySonameRegex(suppr)) =>
    result = Ret(regex_match(suppr.soname_regex, base_name(artifact.path)))

\* the base name of the path passes the rule's file-name regex pair
FileNamePairAccepts(s, path) ==
  /\ path # ""
  /\ ~s.file_name_regex.null \/ ~s.file_name_not_regex.null
  /\ ~s.file_name_regex.null =>
       base_name(path) \in regex_language(s.file_name_regex.re)
  /\ ~s.file_name_not_regex.null =>
       base_name(path) \notin regex_language(s.file_name_not_regex.re)

\* the positions of the file rules of the vector that accept the path
AcceptingFileRules(path, sprs) ==
  {i \in 1..Len(sprs) :
     sprs[i].kind = "file" /\ FileNamePairAccepts(sprs[i], path)}

\* C17: a file rule never matches a diff node; suppresses_file(path) is true
\* iff the path is not empty, the rule has file_name_regexp or
\* file_name_not_regexp, and the base name matches the former when set and
\* does not match the latter when set; file_is_suppressed returns the first
\* file rule of the vector for which this holds, or nil when there is none
C17_FileRulesMatchByFileNamePair ==
  /\ FileSuppressesDiffEnded => result = Ret(FALSE)
  /\ SuppressesFileEnded =>
       result = Ret(FileNamePairAccepts(suppr, artifact.path))
  /\ FileIsSuppressedEnded =>
       IF AcceptingFileRules(artifact.path, suppressions) = {}
       THEN suppr = NoSuppr /\ result = Ret(FALSE)
       ELSE /\ result = Ret(TRUE)
            /\ \E i \in AcceptingFileRules(artifact.path, suppressions) :
                 /\ suppr = suppressions[i]
                 /\ \A j \in AcceptingFileRules(artifact.path, suppressions) :
                      i <= j

\* file_is_suppressed has returned the second rule of the vector, the first
\* being a file rule that does not accept the path
C17_Witness ==
  /\ FileIsSuppressedEnded
  /\ Len(suppressions) = 2
  /\ suppressions[1].kind = "file"
  /\ suppressions[1] # suppressions[2]
  /\ suppr = suppressions[2]
  /\ result = Ret(TRUE)

-----------------------------------------------------------------------------
(* The strongly-connected component finder (src/src/abg-scc.h), driven by   *)
(* a depth-first search that follows the usage its class comment documents  *)

MaxNodes == 3
MaxEdges == 5

Nodes == 1..MaxNodes

\* bool Empty() const
Empty ==
  open_ = <<>> /\ DOMAIN is_open_ = {} /\ root_index_ = <<>>

\* abg_compat::optional<size_t>
NoHandle == [has_value |-> FALSE, value |-> 0]
Handle(ix) == [has_value |-> TRUE, value |-> ix]

\* 'is_open_.insert({node, is_open_.size()})' when the node is not a key
is_open_insert(node) ==
  [n \in DOMAIN is_open_ \cup {node} |->
     IF n = node THEN Cardinality(DOMAIN is_open_) ELSE is_open_[n]]

\* the loop of Open, but popping one index at most
pop_one_root(roots, ix) ==
  IF roots # <<>> /\ roots[Len(roots)] > ix
  THEN SubSeq(roots, 1, Len(roots) - 1)
  ELSE roots

\* 'while (root_index_.back() > ix) root_index_.pop_back();'
RECURSIVE pop_roots(_, _)
pop_roots(roots, ix) ==
  IF roots # <<>> /\ roots[Len(roots)] > ix
  THEN pop_roots(SubSeq(roots, 1, Len(roots) - 1), ix)
  ELSE roots

\* the loop of Open pops every index and then reads back() of an empty vector
pop_reads_empty(roots, ix) == \A k \in 1..Len(roots) : roots[k] > ix

\* Open(node), but without 'root_index_.push_back(ix)' for a new node
Open_without_root(node) ==
  IF node \in DOMAIN is_open_
  THEN [ret |-> NoHandle,
        open_ |-> open_,
        is_open_ |-> is_open_,
        root_index_ |-> pop_roots(root_index_, is_open_[node])]
  ELSE [ret |-> Handle(Cardinality(DOMAIN is_open_)),
        open_ |-> Append(open_, node),
        is_open_ |-> is_open_insert(node),
        root_index_ |-> root_index_]

\* Open(node): the handle returned and the members afterwards
Open(node) ==
  IF node \in DOMAIN is_open_
  THEN [ret |-> NoHandle,
        open_ |-> open_,
        is_open_ |-> is_open_,
        root_index_ |-> pop_roots(root_index_, is_open_[node])]
  ELSE [ret |-> Handle(Cardinality(DOMAIN is_open_)),
        open_ |-> Append(open_, node),
        is_open_ |-> is_open_insert(node),
        root_index_ |-> Append(root_index_, Cardinality(DOMAIN is_open_))]

\* is_root_index, but true of every index: every node closes a component
is_any_index(ix) == ix >= 0

\* 'if (ix == root_index_.back())'
is_root_index(ix) == ix = root_index_[Len(root_index_)]

\* the body of the 'if' of Close, but without 'root_index_.pop_back()'
close_scc_keeping_root(ix) ==
  [scc |-> SubSeq(open_, ix + 1, Len(open_)),
   open_ |-> SubSeq(open_, 1, ix),
   is_open_ |-> [n \in DOMAIN is_open_
                         \ Range(SubSeq(open_, ix + 1, Len(open_))) |->
                   is_open_[n]],
   root_index_ |-> root_index_]

\* the body of the 'if' of Close: erase, move, resize, pop_back
close_scc(ix) ==
  [scc |-> SubSeq(open_, ix + 1, Len(open_)),
   open_ |-> SubSeq(open_, 1, ix),
   is_open_ |-> [n \in DOMAIN is_open_
                         \ Range(SubSeq(open_, ix + 1, Len(open_))) |->
                   is_open_[n]],
   root_index_ |-> SubSeq(root_index_, 1, Len(root_index_) - 1)]

\* Close(ix), past its assertion: the vector returned and the members
\* afterwards
Close(ix) ==
  IF is_root_index(ix) THEN close_scc(ix)
  ELSE [scc |-> <<>>, open_ |-> open_, is_open_ |-> is_open_,
        root_index_ |-> root_index_]

\* the nodes the search has assigned to a component
assigned == UNION {Range(sccs[i]) : i \in 1..Len(sccs)}

\* the number of edges followed so far
RECURSIVE edges_followed(_)
edges_followed(n) ==
  IF n = 0 THEN 0 ELSE Len(edges[n]) + edges_followed(n - 1)

Frame(node, ix) == [node |-> node, ix |-> ix]

\* 'call Open': the node is examined when a handle comes back
Examine(node, opened) ==
  /\ open_' = opened.open_
  /\ is_open_' = opened.is_open_
  /\ root_index_' = opened.root_index_
  /\ stack' = IF opened.ret.has_value
              THEN Append(stack, Frame(node, opened.ret.value))
              ELSE stack
  /\ visited' = IF opened.ret.has_value THEN visited \cup {node} ELSE visited
  /\ pc' = pc

\* Open on a node, or the undefined read of its loop
OpenNode(node) ==
  IF node \in DOMAIN is_open_ /\ pop_reads_empty(root_index_, is_open_[node])
  THEN /\ pc' = "undefined"
       /\ UNCHANGED <<open_, is_open_, root_index_, stack, visited>>
  ELSE Examine(node, Open(node))

\* a top-level search starts on a node that no component holds
StartSearch ==
  /\ pc = "search"
  /\ stack = <<>>
  /\ \E node \in Nodes \ assigned : OpenNode(node)
  /\ UNCHANGED <<parse_vars, match_vars, result, scc, edges, sccs>>

\* the examination of the node on top follows one more edge: to a node that
\* a component holds already, or else through Open
FollowEdge ==
  /\ pc = "search"
  /\ stack # <<>>
  /\ edges_followed(MaxNodes) < MaxEdges
  /\ \E node \in Nodes \ Range(edges[stack[Len(stack)].node]) :
       /\ edges' = [edges EXCEPT ![stack[Len(stack)].node] = Append(@, node)]
       /\ IF node \in assigned
          THEN UNCHANGED <<open_, is_open_, root_index_, stack, visited, pc>>
          ELSE OpenNode(node)
  /\ UNCHANGED <<parse_vars, match_vars, result, scc, sccs>>

\* what Close does to the finder and to the search that called it
Closed(closed) ==
  /\ scc' = closed.scc
  /\ open_' = closed.open_
  /\ is_open_' = closed.is_open_
  /\ root_index_' = closed.root_index_
  /\ sccs' = IF closed.scc # <<>> THEN Append(sccs, closed.scc) ELSE sccs
  /\ stack' = SubSeq(stack, 1, Len(stack) - 1)
  /\ pc' = pc

\* the examination of the node on top is done: Close with its handle, and
\* the nodes of the vector returned are recorded
FinishNode ==
  /\ pc = "search"
  /\ stack # <<>>
  /\ IF ~(stack[Len(stack)].ix < Len(open_))
     THEN /\ pc' = "aborted"
          /\ UNCHANGED <<open_, is_open_, root_index_, scc, stack, sccs>>
     ELSE IF root_index_ = <<>>
     THEN /\ pc' = "undefined"
          /\ UNCHANGED <<open_, is_open_, root_index_, scc, stack, sccs>>
     ELSE Closed(Close(stack[Len(stack)].ix))
  /\ UNCHANGED <<parse_vars, match_vars, result, visited, edges>>

NextSCC ==
  \/ StartSearch
  \/ FollowEdge
  \/ FinishNode

InitSCC ==
  /\ ParserIdle
  /\ suppr = NoSuppr
  /\ diff = NoNode
  /\ artifact = NoType
  /\ ctxt = NoCtxt
  /\ change = {}
  /\ type_is_private = FALSE
  /\ result = Idle
  /\ pc = "search"
  /\ open_ = <<>>
  /\ is_open_ = <<>>
  /\ root_index_ = <<>>
  /\ scc = <<>>
  /\ stack = <<>>
  /\ visited = {}
  /\ edges = [n \in Nodes |-> <<>>]
  /\ sccs = <<>>

SpecSCC == InitSCC /\ [][NextSCC]_vars

-----------------------------------------------------------------------------
(* Properties of the SCC finder *)

\* the nodes one edge away from the nodes of S, with S
WithSuccessors(S) == S \cup UNION {Range(edges[u]) : u \in S}

\* the nodes reached from S in n edges at most
RECURSIVE ReachedWithin(_, _)
ReachedWithin(S, n) ==
  IF n = 0 THEN S ELSE ReachedWithin(WithSuccessors(S), n - 1)

Reaches(u, v) == v \in ReachedWithin({u}, MaxNodes)

MutuallyReachable(u, v) == Reaches(u, v) /\ Reaches(v, u)

\* the positions, among the vectors returned, of those that hold the node
ComponentsOf(v) == {i \in 1..Len(sccs) : v \in Range(sccs[i])}

\* no top-level search is under way
SearchCompleted == pc = "search" /\ stack = <<>>

\* C18: when the search follows the documented protocol, the non-empty
\* vectors Close returned are exactly the strongly connected components of
\* the visited graph: every visited node is in exactly one vector, once;
\* the nodes of a vector are mutually reachable; nodes of different vectors
\* are not; and no call trips the assertion of Close or reads an empty
\* root_index_
C18_ClosedVectorsAreTheComponents ==
  /\ pc = "search"
  /\ SearchCompleted =>
       /\ \A v \in visited : Cardinality(ComponentsOf(v)) = 1
       /\ \A i \in 1..Len(sccs) :
            /\ Range(sccs[i]) \subseteq visited
            /\ Cardinality(Range(sccs[i])) = Len(sccs[i])
       /\ \A u \in visited : \A v \in visited :
            (ComponentsOf(u) = ComponentsOf(v)) <=> MutuallyReachable(u, v)

\* a completed search that found a component of several nodes next to
\* another component
C18_Witness ==
  /\ SearchCompleted
  /\ Len(sccs) >= 2
  /\ \E i \in 1..Len(sccs) : Len(sccs[i]) >= 2
  /\ visited = Nodes

\* C19: the components come out leaves first: once Close has returned a
\* component S, every edge that leaves a node of S leads to a node of S or of
\* a component returned before it, never to a node still open or not visited
C19_ComponentsComeLeavesFirst ==
  \A i \in 1..Len(sccs) : \A u \in Range(sccs[i]) :
    \A v \in Range(edges[u]) :
      \E j \in 1..i : v \in Range(sccs[j])

\* Close has just returned a component with an edge into an earlier one,
\* while its caller is still open
C19_Witness ==
  /\ scc # <<>>
  /\ Len(sccs) >= 2
  /\ scc = sccs[Len(sccs)]
  /\ stack # <<>>
  /\ \E u \in Range(scc) : \E v \in Range(edges[u]) : v \notin Range(scc)

\* C20: after every completed top-level search the finder carries no state:
\* open_, is_open_ and root_index_ are empty and Empty() returns true
C20_EmptyBetweenSearches ==
  SearchCompleted =>
    /\ open_ = <<>>
    /\ DOMAIN is_open_ = {}
    /\ root_index_ = <<>>
    /\ Empty

\* a second top-level search has completed, the first having found a cycle
C20_Witness ==
  /\ SearchCompleted
  /\ Len(sccs) >= 2
  /\ Len(sccs[1]) >= 2
  /\ scc # <<>>
  /\ Empty

-----------------------------------------------------------------------------
(* Properties of the insertion ranges on classes that lost members or shrank *)

\* suppresses_diff has ended on a class diff, for a type rule that has at
\* least one offset range
RangeRuleOnClassDiffEnded ==
  /\ pc \in {"done", "aborted"}
  /\ suppr.kind = "type"
  /\ suppr.insertion_ranges # <<>>
  /\ diff.kind = "class_diff"

\* a data member was deleted, or the second class is smaller than the first
DeletedOrShrunk ==
  \/ diff.deleted_data_members # {}
  \/ diff.second.size_in_bits < diff.first.size_in_bits

\* C22: a type rule with at least one offset range never suppresses a class
\* diff in which a data member was deleted or whose second class is smaller
\* in bits than the first
C22_NoSuppressionWhenDeletedOrShrunk ==
  (RangeRuleOnClassDiffEnded /\ DeletedOrShrunk) => result # Ret(TRUE)

\* the class only shrank, nothing was inserted or deleted, and the rule
\* names the class: the call returned false
C22_Witness ==
  /\ RangeRuleOnClassDiffEnded
  /\ diff.deleted_data_members = {}
  /\ diff.inserted_data_members = {}
  /\ diff.second.size_in_bits < diff.first.size_in_bits
  /\ suppr.type_name = diff.first.name
  /\ result = Ret(FALSE)

-----------------------------------------------------------------------------
(* suppresses_type on types with and without a source location, for rules   *)
(* read from a file and for rules the tools made (artificial ones)          *)

LocationSections ==
  {Section("suppress_type", ps \o l) :
     ps \in {<<SimpleProperty("name_regexp", "^T")>>,
             <<SimpleProperty("name_regexp", "^T"),
               SimpleProperty("source_location_not_in", "foo.h")>>,
             <<SimpleProperty("name", "S"),
               SimpleProperty("source_location_not_regexp", "foo")>>,
             <<SimpleProperty("type_kind", "class"),
               SimpleProperty("source_location_not_regexp", "bar"),
               SimpleProperty("source_location_not_in", "foo.h")>>},
     l \in {<<>>,
            <<SimpleProperty("label", get_private_types_suppr_spec_label)>>}}

\* set_is_artificial(true) on a rule
MadeArtificial(s) == [s EXCEPT !.is_artificial = TRUE]

LocationRules ==
  RulesOf(LocationSections)
    \cup {MadeArtificial(s) : s \in RulesOf(LocationSections)}
    \cup {PrivateTypesRule}

\* a class declaration without a definition, and one whose definition is known
DeclarationOnly(t, defined) ==
  [t EXCEPT !.is_declaration_only = TRUE,
            !.definition_of_declaration = defined]

LocationTypes ==
  {Type(k, n, l) : k \in {"class", "enum"}, n \in {"S", "T"},
                   l \in {"", "include/foo.h", "include/bar.h"}}
    \cup {DeclarationOnly(Type("class", n, ""), d) :
            n \in {"S", "T"}, d \in BOOLEAN}

InitLocation ==
  /\ SccIdle
  /\ ParserIdle
  /\ type_is_private = FALSE
  /\ diff = NoNode
  /\ result = Idle
  /\ change = {}
  /\ ctxt = NoCtxt
  /\ suppr \in LocationRules
  /\ artifact \in LocationTypes
  /\ pc = "suppresses_type"

NextLocation == SuppressesType

SpecLocation == InitLocation /\ [][NextLocation]_vars

\* suppresses_type has ended on a type without a source location, for a rule
\* that has a location filter
UnlocatedTypeCallEnded ==
  /\ pc \in {"done", "aborted"}
  /\ suppr.kind = "type"
  /\ artifact.kind \in {"class", "enum"}
  /\ get_location(artifact) = ""
  /\ suppr.source_locations_to_keep # {} \/ ~suppr.source_location_to_keep_regex.null

\* the exception: an artificial rule with the reserved label, on a class
\* that is declared and not defined
OpaqueTypeException ==
  /\ suppr.is_artificial
  /\ suppr.label = get_private_types_suppr_spec_label
  /\ artifact.kind = "class"
  /\ artifact.is_declaration_only
  /\ ~artifact.definition_of_declaration

\* C23: a rule with a location filter does not match a type that has no
\* source location, except that an artificial rule with the private-types
\* label matches a declaration-only class; a class that has a definition and
\* a type that is no class are not matched through this exception
C23_UnlocatedTypesMatchOnlyWhenOpaque ==
  UnlocatedTypeCallEnded =>
    IF OpaqueTypeException
    THEN result = suppresses_type(WithoutLocationPredicates(suppr), artifact)
    ELSE result # Ret(TRUE)

-----------------------------------------------------------------------------
(* Symbol-only queries: suppresses_function_symbol and                      *)
(* suppresses_variable_symbol on rules the parser built                     *)

VariableSymbolArtifact(sym, is_var) ==
  [kind |-> "variable_symbol", symbol |-> sym, is_variable |-> is_var]

\* the symbol name part of suppresses_variable_symbol
variable_symbol_query_name_matches(s, sym_name) ==
  IF s.name # "" THEN s.name = sym_name
  ELSE IF s.symbol_name # "" THEN s.symbol_name = sym_name
  ELSE IF ~s.symbol_name_regex.null
    THEN regex_match(s.symbol_name_regex, sym_name)
  ELSE TRUE

\* 'no_symbol_name && no_symbol_version' of suppresses_variable_symbol
no_variable_symbol_predicate(s) ==
  /\ s.name = "" /\ s.symbol_name = "" /\ s.symbol_name_regex.null
  /\ s.symbol_version = "" /\ s.symbol_version_regex.null

\* variable_suppression::suppresses_variable_symbol(sym, k, ctxt)
suppresses_variable_symbol(s, sym, is_var, kind, c) ==
  IF sym.null THEN Ret(FALSE)
  ELSE IF s.change_kind \cap kind = {} THEN Ret(FALSE)
  ELSE IF ~is_var THEN Ret(FALSE)
  ELSE IF /\ kind \cap ADDED_VARIABLE_CHANGE_KIND = {}
          /\ kind \cap DELETED_VARIABLE_CHANGE_KIND = {}
    THEN Aborted
  ELSE IF ~binaries_match(s, c) THEN Ret(FALSE)
  ELSE IF ~variable_symbol_query_name_matches(s, sym.name) THEN Ret(FALSE)
  ELSE IF ~symbol_query_version_matches(s, sym.version) THEN Ret(FALSE)
  ELSE Ret(~no_variable_symbol_predicate(s))

SuppressesVariableSymbol ==
  /\ pc = "suppresses_variable_symbol"
  /\ Return(suppresses_variable_symbol(suppr, artifact.symbol,
                                       artifact.is_variable, change, ctxt))

NextSymbol ==
  \/ SuppressesFunctionSymbol
  \/ SuppressesVariableSymbol

SymbolProps(section_name) ==
  CASE section_name = "suppress_function" ->
         {SimpleProperty("name", "f"),
          SimpleProperty("name", "g"),
          SimpleProperty("return_type_name", "int"),
          SimpleProperty("parameter", "'0 int"),
          SimpleProperty("symbol_name", "f"),
          SimpleProperty("symbol_name_regexp", "^f"),
          SimpleProperty("symbol_name_regexp", "^g"),
          SimpleProperty("symbol_name_not_regexp", "^g"),
          SimpleProperty("symbol_version", "V1"),
          SimpleProperty("symbol_version_regexp", "^V1"),
          SimpleProperty("change_kind", "added-function"),
          SimpleProperty("file_name_regexp", "bar")}
    [] section_name = "suppress_variable" ->
         {SimpleProperty("name", "V1"),
          SimpleProperty("name", "g"),
          SimpleProperty("type_name", "int"),
          SimpleProperty("symbol_name", "V1"),
          SimpleProperty("symbol_name_regexp", "^V1"),
          SimpleProperty("symbol_name_regexp", "^g"),
          SimpleProperty("symbol_version", "V1"),
          SimpleProperty("symbol_version_regexp", "^V1"),
          SimpleProperty("change_kind", "added-variable"),
          SimpleProperty("file_name_regexp", "bar")}

SymbolSections ==
  UNION {{Section(n, ps) : ps \in SeqsUpTo(SymbolProps(n), MaxProps)} :
           n \in {"suppress_function", "suppress_variable"}}

QueriedSymbols ==
  {Sym(n, v, <<>>) : n \in {"f", "g", "V1"}, v \in {"", "V1"}} \cup {NoSym}

InitSymbol ==
  /\ SccIdle
  /\ ParserIdle
  /\ type_is_private = FALSE
  /\ diff = NoNode
  /\ result = Idle
  /\ ctxt \in {NoCtxt, Ctxt("/usr/lib/libfoo.so", "/usr/lib/libbar.so",
                            "libfoo.so.1", "libbar.so.1")}
  /\ suppr \in RulesOf(SymbolSections)
  /\ \/ /\ suppr.kind = "function"
        /\ pc = "suppresses_function_symbol"
        /\ artifact \in {SymbolArtifact(sym, is_fn) :
                           sym \in QueriedSymbols, is_fn \in BOOLEAN}
        /\ change \in {ADDED_FUNCTION_CHANGE_KIND,
                       DELETED_FUNCTION_CHANGE_KIND}
     \/ /\ suppr.kind = "variable"
        /\ pc = "suppresses_variable_symbol"
        /\ artifact \in {VariableSymbolArtifact(sym, is_var) :
                           sym \in QueriedSymbols, is_var \in BOOLEAN}
        /\ change \in {ADDED_VARIABLE_CHANGE_KIND,
                       DELETED_VARIABLE_CHANGE_KIND}

SpecSymbol == InitSymbol /\ [][NextSymbol]_vars

-----------------------------------------------------------------------------
(* Properties of the symbol-only queries *)

FunctionSymbolQueryEnded ==
  /\ pc \in {"done", "aborted"}
  /\ artifact.kind = "symbol"
  /\ suppr.kind = "function"

\* the rule specifies a symbol name or a symbol version, exactly or by regex
SpecifiesSymbolPredicate(s) ==
  \/ s.symbol_name # ""
  \/ ~s.symbol_name_regex.null
  \/ s.symbol_version # ""
  \/ ~s.symbol_version_regex.null

\* each symbol predicate the rule specifies accepts the symbol
EverySymbolPredicateAccepts(s, sym) ==
  /\ s.symbol_name # "" => sym.name = s.symbol_name
  /\ ~s.symbol_name_regex.null =>
       sym.name \in regex_language(s.symbol_name_regex.re)
  /\ s.symbol_version # "" => sym.version = s.symbol_version
  /\ ~s.symbol_version_regex.null =>
       sym.version \in regex_language(s.symbol_version_regex.re)

\* the rule without its function-name, return-type and parameter predicates
WithoutDeclPredicates(s) ==
  [s EXCEPT !.name = "", !.name_regex = NoRegex, !.name_not_regex = NoRegex,
            !.return_type_name = "", !.return_type_regex = NoRegex,
            !.parm_specs = <<>>]

\* C24: suppresses_function_symbol returns true only if the symbol is a
\* function symbol, the rule's change_kind includes the queried kind, the
\* binary-scope check passes, and the rule specifies at least one of
\* symbol_name, symbol_name_regexp, symbol_version, symbol_version_regexp
\* and each specified one accepts the symbol; the function-name, return-type
\* and parameter predicates have no influence on the result
C24_SymbolQueryUsesSymbolPredicatesOnly ==
  FunctionSymbolQueryEnded =>
    /\ result = Ret(TRUE) =>
         /\ ~artifact.symbol.null
         /\ artifact.is_function
         /\ suppr.change_kind \cap change # {}
         /\ binaries_match(suppr, ctxt)
         /\ SpecifiesSymbolPredicate(suppr)
         /\ EverySymbolPredicateAccepts(suppr, artifact.symbol)
    /\ result = suppresses_function_symbol(WithoutDeclPredicates(suppr),
                                           artifact.symbol,
                                           artifact.is_function, change, ctxt)

\* the symbol passes the name check and the version check, each made on the
\* exact value when the rule gives one and on the regex otherwise
SymbolPredicatesAcceptInOrder(s, sym) ==
  /\ IF s.symbol_name # "" THEN sym.name = s.symbol_name
     ELSE ~s.symbol_name_regex.null =>
            sym.name \in regex_language(s.symbol_name_regex.re)
  /\ IF s.symbol_version # "" THEN sym.version = s.symbol_version
     ELSE ~s.symbol_version_regex.null =>
            sym.version \in regex_language(s.symbol_version_regex.re)

\* C24, amended: as C24, but a regex given next to an exact symbol name (or
\* version) is not consulted: the symbol must equal the exact value when the
\* rule gives one, and match the regex otherwise
C24_SymbolQueryUsesSymbolPredicatesInOrder ==
  FunctionSymbolQueryEnded =>
    /\ result = Ret(TRUE) =>
         /\ ~artifact.symbol.null
         /\ artifact.is_function
         /\ suppr.change_kind \cap change # {}
         /\ binaries_match(suppr, ctxt)
         /\ SpecifiesSymbolPredicate(suppr)
         /\ SymbolPredicatesAcceptInOrder(suppr, artifact.symbol)
    /\ SpecifiesSymbolPredicate(suppr) \/ result = Ret(FALSE)
    /\ result = suppresses_function_symbol(WithoutDeclPredicates(suppr),
                                           artifact.symbol,
                                           artifact.is_function, change, ctxt)

\* a rule that names another function suppressed the symbol through its
\* symbol version
C24_Witness ==
  /\ FunctionSymbolQueryEnded
  /\ suppr.name = "g"
  /\ suppr.symbol_version = "V1"
  /\ artifact.symbol.name = "f"
  /\ ~ctxt.null
  /\ result = Ret(TRUE)

VariableSymbolQueryEnded ==
  /\ pc \in {"done", "aborted"}
  /\ artifact.kind = "variable_symbol"
  /\ suppr.kind = "variable"

\* the rule without its variable-name and type-name predicates
WithoutVariablePredicates(s) ==
  [s EXCEPT !.name = "", !.name_regex = NoRegex, !.name_not_regex = NoRegex,
            !.type_name = "", !.type_name_regex = NoRegex]

\* C25: suppresses_variable_symbol decides from the symbol-name,
\* symbol-version, binary-scope and change-kind predicates only: the rule
\* gives the same result as the rule without its variable name and type name
\* predicates, and a rule without any symbol-name or symbol-version
\* predicate never matches
C25_VariableSymbolQueryMirrorsFunction ==
  VariableSymbolQueryEnded =>
    /\ result = suppresses_variable_symbol(WithoutVariablePredicates(suppr),
                                           artifact.symbol,
                                           artifact.is_variable, change, ctxt)
    /\ SpecifiesSymbolPredicate(suppr) \/ result = Ret(FALSE)

-----------------------------------------------------------------------------
(* The change kind of a function rule, from the section to the entry points *)

NextKind ==
  \/ FunctionSuppressesDiff
  \/ SuppressesFunction
  \/ SuppressesFunctionSymbol

KindProps ==
  {SimpleProperty("change_kind", "function-subtype-change"),
   SimpleProperty("change_kind", "added-function"),
   SimpleProperty("change_kind", "deleted-function"),
   SimpleProperty("change_kind", "all"),
   SimpleProperty("change_kind", "added-functions"),
   ListProperty("change_kind", <<"added-function", "deleted-function">>),
   SimpleProperty("name", "f"),
   SimpleProperty("name_regexp", "^f"),
   SimpleProperty("symbol_name", "g")}

KindSections ==
  {Section("suppress_function", ps) : ps \in SeqsUpTo(KindProps, MaxProps)}

FunctionF == Function("f", Sym("f", "", <<>>), "int", <<>>, NoType)
FunctionG == Function("g", Sym("g", "", <<>>), "int", <<>>, NoType)

FunctionDeclDiffs ==
  {Diff("function_decl_diff", ff, sf) :
     ff \in {FunctionF, FunctionG}, sf \in {FunctionF, FunctionG}}

\* the rule is the one read_suppression makes of the only section of 'config'
InitKind ==
  /\ SccIdle
  /\ config \in {<<sec>> : sec \in {x \in KindSections :
                                      read_suppression(x).ret = Ret(TRUE)}}
  /\ suppressions0 = <<>>
  /\ suppressions = <<>>
  /\ success = TRUE
  /\ idx = 1
  /\ suppr = read_suppression(config[1]).suppr
  /\ type_is_private = FALSE
  /\ result = Idle
  /\ ctxt = NoCtxt
  /\ \/ /\ pc = "suppresses_diff"
        /\ diff \in FunctionDeclDiffs \cup {VarDiff}
        /\ artifact = NoType
        /\ change = {}
     \/ /\ pc = "suppresses_function"
        /\ diff = NoNode
        /\ artifact \in {FunctionF, FunctionG}
        /\ change \in {FUNCTION_SUBTYPE_CHANGE_KIND,
                       ADDED_FUNCTION_CHANGE_KIND,
                       DELETED_FUNCTION_CHANGE_KIND}
     \/ /\ pc = "suppresses_function_symbol"
        /\ diff = NoNode
        /\ artifact \in {SymbolArtifact(sym, TRUE) :
                           sym \in {Sym("f", "", <<>>), Sym("g", "", <<>>)}}
        /\ change \in {ADDED_FUNCTION_CHANGE_KIND,
                       DELETED_FUNCTION_CHANGE_KIND}

SpecKind == InitKind /\ [][NextKind]_vars

\* an entry point of the function rule has ended
KindCallEnded == pc \in {"done", "aborted"} /\ suppr.kind = "function"

\* suppresses_diff has ended on a function-declaration diff
FunctionDeclDiffCallEnded ==
  /\ KindCallEnded
  /\ is_function_decl_diff(diff)

\* the rule accepts the function when its change kind is left out of account
SideMatches(fn) ==
  suppresses_function([suppr EXCEPT !.change_kind = ALL_FUNCTION_CHANGE_KIND],
                      fn, FUNCTION_SUBTYPE_CHANGE_KIND, ctxt) = Ret(TRUE)

ChangeKindGrammar ==
  {"function-subtype-change", "added-function", "deleted-function", "all"}

\* the section gives a 'change_kind' that is not a word of the grammar
ChangeKindOutsideGrammar ==
  /\ has_property(config[1], "change_kind")
  /\ \/ ~is_simple_property(find_property(config[1], "change_kind"))
     \/ as_string(find_property(config[1], "change_kind"))
          \notin ChangeKindGrammar

\* the section gives a 'change_kind' string that is not a word of the grammar
ChangeKindStringOutsideGrammar ==
  /\ has_property(config[1], "change_kind")
  /\ is_simple_property(find_property(config[1], "change_kind"))
  /\ as_string(find_property(config[1], "change_kind")) \notin ChangeKindGrammar

ChangeKindFilters ==
  /\ FunctionDeclDiffCallEnded =>
       (result = Ret(TRUE)) <=>
         /\ FUNCTION_SUBTYPE_CHANGE_KIND \subseteq suppr.change_kind
         /\ SideMatches(diff.first) \/ SideMatches(diff.second)
  /\ KindCallEnded /\ ~has_property(config[1], "change_kind") =>
       suppr.change_kind = ALL_FUNCTION_CHANGE_KIND

-----------------------------------------------------------------------------
(* offset::eval, called on the offsets read_offset builds *)

\* the call ends with what eval leaves; a null dereference may end any way
Eval ==
  /\ pc = "eval"
  /\ result' \in IF eval(suppr, artifact) = EvalUndefined
                 THEN {EvalUndefined, EvalFailed, Value(0)}
                 ELSE {eval(suppr, artifact)}
  /\ pc' = "done"
  /\ UNCHANGED <<parse_vars, match_vars, scc_vars>>

NextEval == Eval

OffsetStrings ==
  DigitStrings \cup
    {"end", "bogus", "offset_of(a)", "offset_of(b)", "offset_of(zz)",
     "offset_after(a)", "offset_after(b)", "offset_after(zz)",
     "offset_of(a,b)", "size_of(a)", "offset_of(s)", "offset_after(s)",
     "offset_of()", "offset_after(a,b)"}

ClassWith(members) ==
  [Type("class", "S", "include/foo.h") EXCEPT
     !.size_in_bits = 128, !.data_members = members]

\* classes to evaluate in: 's' is a static member unless it comes last
EvalContexts ==
  {ClassS,
   ClassWith(<<>>),
   ClassWith(<<DataMember("b", 0, TRUE, 16), DataMember("a", 16, TRUE, 8),
               DataMember("s", 32, TRUE, 64)>>),
   ClassWith(<<DataMember("s", 0, FALSE, 32), DataMember("a", 0, TRUE, 32),
               DataMember("zz", 0, FALSE, 8)>>)}

InitEval ==
  /\ SccIdle
  /\ ParserIdle
  /\ type_is_private = FALSE
  /\ diff = NoNode
  /\ ctxt = NoCtxt
  /\ change = {}
  /\ result = Idle
  /\ pc = "eval"
  /\ suppr \in {read_offset(str).val :
                  str \in {x \in OffsetStrings : read_offset(x).ok}}
  /\ artifact \in EvalContexts

SpecEval == InitEval /\ [][NextEval]_vars

\* eval has ended on a function-call offset that holds a call
CallEvalEnded ==
  /\ pc = "done"
  /\ suppr.tag = "fn_call_expr_offset"
  /\ ~suppr.expr.null

\* the member at position i is laid out and called n, and none before it is
FirstLaidOutNamed(i, n) ==
  /\ artifact.data_members[i].laid_out
  /\ artifact.data_members[i].name = n
  /\ \A j \in 1..(i - 1) :
       ~(artifact.data_members[j].laid_out
           /\ artifact.data_members[j].name = n)

\* the member at position k is the first laid-out one after position i
NextLaidOut(i, k) ==
  /\ k > i
  /\ artifact.data_members[k].laid_out
  /\ \A j \in (i + 1)..(k - 1) : ~artifact.data_members[j].laid_out

\* the call is offset_of(m) or offset_after(m) for a laid-out member m
EvaluableCall ==
  /\ suppr.expr.name \in {"offset_of", "offset_after"}
  /\ Len(suppr.expr.arguments) = 1
  /\ \E i \in 1..Len(artifact.data_members) :
       FirstLaidOutNamed(i, suppr.expr.arguments[1])

\* C27: offset_of(m) is the offset of the first laid-out member named m;
\* offset_after(m) is the offset of the next laid-out member, or the offset
\* of m plus the size of its type when no laid-out member follows; and eval
\* fails, without aborting, when no laid-out member is named m, when the
\* function is neither offset_of nor offset_after, or when the call does not
\* have exactly one argument
C27_EvalOfOffsetCalls ==
  CallEvalEnded =>
    /\ EvaluableCall =>
         \A i \in 1..Len(artifact.data_members) :
           FirstLaidOutNamed(i, suppr.expr.arguments[1]) =>
             /\ suppr.expr.name = "offset_of" =>
                  result = Value(artifact.data_members[i].offset)
             /\ suppr.expr.name = "offset_after" =>
                  /\ \A k \in 1..Len(artifact.data_members) :
                       NextLaidOut(i, k) =>
                         result = Value(artifact.data_members[k].offset)
                  /\ (\A k \in 1..Len(artifact.data_members) :
                        ~NextLaidOut(i, k)) =>
                       result = Value(artifact.data_members[i].offset
                                        + artifact.data_members[i].size_in_bits)
    /\ ~EvaluableCall => result = EvalFailed

\* offset_after(a) was evaluated in a class where a static member lies
\* between a and the next laid-out member, and gave that member's offset
C27_Witness ==
  /\ CallEvalEnded
  /\ suppr.expr.name = "offset_after"
  /\ suppr.expr.arguments = <<"a">>
  /\ artifact = ClassS
  /\ result = Value(32)

-----------------------------------------------------------------------------
(* has_data_member_inserted_between, over the shapes its value may take *)

BetweenProps ==
  {SimpleProperty("name", "S"),
   TupleProperty("has_data_member_inserted_between",
                 <<ListValue(<<"0", "end">>)>>),
   TupleProperty("has_data_member_inserted_between",
                 <<ListValue(<<"offset_of(a)", "offset_after(b)">>)>>),
   TupleProperty("has_data_member_inserted_between",
                 <<ListValue(<<"0">>)>>),
   TupleProperty("has_data_member_inserted_between",
                 <<ListValue(<<"0", "8", "16">>)>>),
   TupleProperty("has_data_member_inserted_between",
                 <<ListValue(<<"0", "end">>), ListValue(<<"8", "16">>)>>),
   TupleProperty("has_data_member_inserted_between",
                 <<ListValue(<<"bogus", "end">>)>>),
   TupleProperty("has_data_member_inserted_between",
                 <<ListValue(<<"0", "bogus">>)>>),
   SimpleProperty("has_data_member_inserted_between", "8"),
   ListProperty("has_data_member_inserted_between", <<"0", "end">>)}

BetweenConfigs ==
  { <<Section(n, ps)>> : n \in SectionNames,
                         ps \in SeqsUpTo(BetweenProps, MaxProps) }

InitBetween == InitParseWith(BetweenConfigs, {<<>>})

SpecBetween == InitBetween /\ [][NextParse]_vars

\* the run over a suppress_type section with the property has returned
BetweenSectionDone ==
  /\ SectionDone
  /\ TheSection.name = "suppress_type"
  /\ has_property(TheSection, "has_data_member_inserted_between")

TheBetween == find_property(TheSection, "has_data_member_inserted_between")

\* `end`, a non-negative integer or a function-call expression
WellFormedBound(str) ==
  \/ str = "end"
  \/ str \in DigitStrings
  \/ ~read_function_call_expr(str).null

\* a tuple holding exactly one list of exactly two well-formed scalars
WellShapedBetween(prop) ==
  /\ prop.kind = "tuple"
  /\ Len(prop.value.items) = 1
  /\ prop.value.items[1].kind = "list"
  /\ Len(prop.value.items[1].content) = 2
  /\ WellFormedBound(prop.value.items[1].content[1])
  /\ WellFormedBound(prop.value.items[1].content[2])

\* an offset that is there and can be evaluated
WellFormedOffset(o) ==
  /\ ~o.null
  /\ \/ o.tag = "integer_offset"
     \/ o.tag = "fn_call_expr_offset" /\ ~o.expr.null

\* C28: a has_data_member_inserted_between property gives the rule a range
\* only when its value is a tuple of exactly one list of exactly two
\* well-formed scalars; with a value of any other shape the section yields no
\* rule; and both ends of every range of an accepted rule are non-null,
\* well-formed offsets
C28_BetweenIsDecodedOrRejectsSection ==
  BetweenSectionDone =>
    /\ ~WellShapedBetween(TheBetween) => suppressions = <<>>
    /\ SectionAccepted =>
         /\ TheRule.insertion_ranges # <<>> => WellShapedBetween(TheBetween)
         /\ \A k \in 1..Len(TheRule.insertion_ranges) :
              /\ WellFormedOffset(TheRule.insertion_ranges[k].begin)
              /\ WellFormedOffset(TheRule.insertion_ranges[k].end)

-----------------------------------------------------------------------------
(* The representation of the open nodes *)

\* open_ and is_open_ are inverse to each other
OpenNodesIndexed ==
  /\ Len(open_) = Cardinality(DOMAIN is_open_)
  /\ \A i \in 1..Len(open_) :
       open_[i] \in DOMAIN is_open_ /\ is_open_[open_[i]] = i - 1

\* root_index_ is a strictly increasing sequence of indices into open_ that
\* starts with 0 whenever a node is open
RootsIncreasing ==
  /\ \A k \in 1..Len(root_index_) :
       root_index_[k] >= 0 /\ root_index_[k] < Len(open_)
  /\ \A j, k \in 1..Len(root_index_) :
       j < k => root_index_[j] < root_index_[k]
  /\ open_ # <<>> => root_index_ # <<>> /\ root_index_[1] = 0

\* the step is a call of Open on a node that is open already
OpenOfOpenNode ==
  /\ \E n \in Nodes : Len(edges'[n]) > Len(edges[n])
  /\ \A n \in Nodes :
       Len(edges'[n]) > Len(edges[n]) =>
         edges'[n][Len(edges'[n])] \in DOMAIN is_open_

\* the step is a call of Close with a handle that is not the last root
CloseOfNonRoot ==
  /\ Len(stack') < Len(stack)
  /\ stack[Len(stack)].ix # root_index_[Len(root_index_)]

OpenAndCloseKeepState ==
  /\ OpenOfOpenNode => open_' = open_ /\ is_open_' = is_open_
  /\ CloseOfNonRoot =>
       /\ scc' = <<>>
       /\ open_' = open_ /\ is_open_' = is_open_
       /\ root_index_' = root_index_

\* C29: under the documented usage open_ and is_open_ are inverse to each
\* other, root_index_ is strictly increasing, holds valid indices and starts
\* with 0 whenever a node is open; so back() is never read on an empty
\* root_index_ and the assertion of Close never fails; Open on an open node
\* changes neither open_ nor is_open_, and Close with a handle that is not
\* the last root returns an empty vector and changes nothing
C29_OpenNodesAndRootsStayConsistent ==
  /\ [](OpenNodesIndexed /\ RootsIncreasing
          /\ pc \notin {"undefined", "aborted"})
  /\ [][OpenAndCloseKeepState]_vars

\* three nodes are open on a cycle: Open on the first of them has popped the
\* roots of the other two, and Close of the last one has returned nothing
C29_Witness ==
  /\ Len(open_) = 3
  /\ root_index_ = <<0>>
  /\ Len(stack) = 2
  /\ scc = <<>>
  /\ sccs = <<>>

-----------------------------------------------------------------------------
(* has_data_member_inserted_at, from the section to the class diff *)

InsertionPoints ==
  {"0", "8", "32", "end", "offset_of(b)", "offset_after(a)",
   "offset_after(b)", "offset_of(zz)", "bogus"}

InsertedAtSections ==
  {Section("suppress_type",
           <<SimpleProperty("name", "S"),
             SimpleProperty("has_data_member_inserted_at", at)>>) :
     at \in InsertionPoints}

InsertedAtPool ==
  {DataMember("x", 8, TRUE, 8), DataMember("w", 32, TRUE, 32),
   DataMember("y", 64, TRUE, 32), DataMember("z", 96, TRUE, 32)}

InsertedAtDiffs ==
  {ClassDiff(inserted, deleted, size) :
     inserted \in {I \in SUBSET InsertedAtPool : Cardinality(I) <= MaxInserted},
     deleted \in {{}, {"b"}},
     size \in {32, 64, 128}}

\* the rule is the one read_suppression makes of the only section of 'config'
InitInsertedAt ==
  /\ SccIdle
  /\ config \in {<<sec>> : sec \in {x \in InsertedAtSections :
                                      read_suppression(x).ret = Ret(TRUE)}}
  /\ suppressions0 = <<>>
  /\ suppressions = <<>>
  /\ success = TRUE
  /\ idx = 1
  /\ suppr = read_suppression(config[1]).suppr
  /\ type_is_private = FALSE
  /\ result = Idle
  /\ change = {}
  /\ artifact = NoType
  /\ ctxt = Ctxt("/usr/lib/libfoo.so", "/usr/lib/libfoo.so",
                 "libfoo.so.1", "libfoo.so.1")
  /\ pc = "suppresses_diff"
  /\ diff \in {d \in InsertedAtDiffs :
                 HoldsAll(d.second.size_in_bits, d.inserted_data_members)}

SpecInsertedAt == InitInsertedAt /\ [][TypeSuppressesDiff]_vars

\* the value X of has_data_member_inserted_at
TheInsertionPoint ==
  as_string(find_property(config[1], "has_data_member_inserted_at"))

\* what X denotes in class S { a at 0; static s; b at 32 (32 bits) }
DenotedInS ==
  [X \in {"0", "8", "32", "offset_of(b)", "offset_after(a)",
          "offset_after(b)"} |->
     CASE X = "0" -> 0
       [] X = "8" -> 8
       [] X = "offset_after(b)" -> 64
       [] OTHER -> 32]

\* suppresses_diff has ended on a class diff of S
InsertedAtCallEnded == pc \in {"done", "aborted"} /\ diff.kind = "class_diff"

\* nothing was deleted and the class did not shrink
GrownOnly ==
  /\ diff.deleted_data_members = {}
  /\ diff.first.size_in_bits <= diff.second.size_in_bits

\* C30: has_data_member_inserted_at = X gives the single range [X, end];
\* when X evaluates to N the rule admits every inserted member at an offset
\* >= N, and when X is `end` exactly the members placed strictly after the
\* last data member of the first class
C30_InsertedAtIsFromXToEnd ==
  InsertedAtCallEnded =>
    /\ Len(suppr.insertion_ranges) = 1
    /\ suppr.insertion_ranges[1].end.tag = "integer_offset"
    /\ suppr.insertion_ranges[1].end.value = uint64_max
    /\ TheInsertionPoint \in DOMAIN DenotedInS =>
         /\ eval(suppr.insertion_ranges[1].begin, diff.first)
              = Value(DenotedInS[TheInsertionPoint])
         /\ GrownOnly =>
              (result = Ret(TRUE)) <=>
                \A m \in diff.inserted_data_members :
                  m.offset >= DenotedInS[TheInsertionPoint]
    /\ TheInsertionPoint = "end" =>
         /\ suppr.insertion_ranges[1].begin.tag = "integer_offset"
         /\ suppr.insertion_ranges[1].begin.value = uint64_max
         /\ GrownOnly =>
              (result = Ret(TRUE)) <=>
                \A m \in diff.inserted_data_members :
                  m.offset > diff.first.data_members[
                               Len(diff.first.data_members)].offset

\* a rule with has_data_member_inserted_at = 8 has suppressed a class diff
\* whose only inserted member lies at offset 64
C30_Witness ==
  /\ InsertedAtCallEnded
  /\ TheInsertionPoint = "8"
  /\ GrownOnly
  /\ diff.inserted_data_members = {DataMember("y", 64, TRUE, 32)}
  /\ result = Ret(TRUE)

====
